---- MODULE Spec2Model ----
EXTENDS Integers, Sequences, FiniteSets, Bags, TLC

(***************************************************************************)
(* Authentication & session integrity engine of the tumataxi backend.      *)
(*                                                                         *)
(* The database (users, user_sessions, refresh_tokens, security_events)    *)
(* is the shared state; every HTTP request is a client process that runs   *)
(* its handler in steps, one step per database round trip that another     *)
(* request can interleave with (a SELECT that loads rows into the request's*)
(* ORM session, and the commit that flushes what the handler changed).     *)
(*                                                                         *)
(* Conventions of the translation:                                         *)
(*  - time is in minutes; `now` is datetime.now(timezone.utc);             *)
(*  - None (a NULL column, a Python None) is the integer -1; every time    *)
(*    and every counter of the program is >= 0;                            *)
(*  - every name a handler uses is taken to be bound to the object it      *)
(*    evidently denotes (hashlib in api/auth.py is the standard module,    *)
(*    jwt_service and crypto_service are the initialised services); what   *)
(*    the handlers compute with those objects is modelled as written;      *)
(*  - the middlewares are taken to hold the Redis client that main.py      *)
(*    announces for them ("Will be set in lifespan"), with awaitable       *)
(*    commands; with the None they are constructed with, every branch      *)
(*    under "if self.redis_client" is skipped;                             *)
(*  - a commit writes, for a row the request loaded, exactly the columns   *)
(*    whose value the handler changed (SQLAlchemy's unit of work), and      *)
(*    inserts the rows the handler added.                                  *)
(***************************************************************************)

VARIABLES
    now,        \* the clock
    user,       \* the users row of the account
    sessions,   \* the user_sessions rows
    tokens,     \* the refresh_tokens rows
    events,     \* the security_events rows (a bag: the table is append-only)
    jwts,       \* refresh JWTs returned to a client
    access,     \* access JWTs returned to a client
    nextId,     \* source of fresh uuid4 / token_urlsafe values
    ticks,      \* how often the clock has advanced
    pc,         \* per request: where its handler stands
    loc,        \* per request: the handler's local variables
    resp,       \* per client: the response to its last finished request
    redis,      \* the keys of the Redis store of the middlewares
    requests    \* how many requests the middlewares have received

vars == <<now, user, sessions, tokens, events, jwts, access, nextId, ticks, pc, loc, resp,
          redis, requests>>

\* ------------------------------------------------------------------------
\* Program constants (core/security.py, SecurityConfig)
MAX_LOGIN_ATTEMPTS == 5
ACCOUNT_LOCK_DURATION_MINUTES == 30
SESSION_TIMEOUT_MINUTES == 120
MAX_CONCURRENT_SESSIONS == 3
REFRESH_TOKEN_EXPIRE_DAYS == 30
ACCESS_TOKEN_EXPIRE_MINUTES == 15
\* api/auth.py: timedelta(days=30) of a remember_me session
REMEMBER_ME_DAYS == 30

MinutesPerDay == 24 * 60

\* ------------------------------------------------------------------------
\* Bounds of the model
MaxTicks == 3        \* clock advances per behaviour
MaxFailed == 6       \* cap of failed_login_attempts
MaxIds == 6          \* fresh ids a behaviour's logins draw (two per login)
MaxEvents == 2       \* security_events rows of one type per behaviour
MaxTokens == 3       \* refresh_tokens rows per behaviour
MaxRequests == 3     \* requests the middlewares receive per behaviour

None == 0 - 1

Clients == {"c1", "c2"}

UserStatus == {"active", "inactive", "suspended", "pending_verification", "deleted"}

Countries == {"US", "FR"}

\* secrets.token_urlsafe and uuid.uuid4 draw from disjoint value spaces;
\* tag names the column the value was drawn for, n makes it fresh
Uuid4(tag, n) == [kind |-> "uuid", tag |-> tag, n |-> n]
TokenUrlsafe(tag, n) == [kind |-> "urlsafe", tag |-> tag, n |-> n]

\* hashlib.sha256(token.encode()).hexdigest(): one digest per token string
Sha256Hex(jwt) == [kind |-> "sha256", tag |-> "token_hash", n |-> jwt.jti.n]

\* the id of the one account of the model
UserId == Uuid4("users.id", 0)

\* the reference to no row (no session is evicted)
NoSession == Uuid4("None", 0)

\* a request that is not running, and its locals
Blank == [op |-> "none"]

\* ------------------------------------------------------------------------
\* database/models.py

User_is_active(u, t) ==
    /\ u.status = "active"
    /\ u.deleted_at = None
    /\ (u.account_locked_until = None \/ u.account_locked_until < t)

User_is_locked(u, t) ==
    /\ u.account_locked_until # None
    /\ u.account_locked_until > t

UserSession_is_active(s, t) ==
    /\ s.status = "active"
    /\ s.expires_at > t
    /\ s.ended_at = None

RefreshToken_is_valid(r, t) ==
    /\ ~r.is_revoked
    /\ ~r.is_used
    /\ r.expires_at > t

\* ------------------------------------------------------------------------
\* security_events rows

\* event_type, severity and, of the row's metadata, the countries (set by the
\* suspicious_login_location event only)
SecurityEventWith(event_type, severity, new_country, previous_countries) ==
    [user_id |-> UserId, event_type |-> event_type, severity |-> severity,
     new_country |-> new_country, previous_countries |-> previous_countries]

SecurityEvent(event_type, severity) ==
    SecurityEventWith(event_type, severity, "None", {})

AccountLockedEvent == SecurityEvent("account_locked", "high")
SuspiciousLocationEvent(new_country, previous_countries) ==
    SecurityEventWith("suspicious_login_location", "medium",
                      new_country, previous_countries)
TokenReuseEvent == SecurityEvent("token_reuse_detected", "critical")

EventCount(e) == CopiesIn(e, events)

\* the rows of one event_type
EventsOfType(event_type) ==
    BagCardinality([e \in {x \in BagToSet(events) : x.event_type = event_type}
                      |-> events[e]])

db_add_event(e) == events (+) SetToBag({e})

\* ------------------------------------------------------------------------
\* The HTTP responses the handlers raise or return

Response(op, code, detail) == [op |-> op, code |-> code, detail |-> detail]

Finish(p, r) ==
    /\ pc' = [pc EXCEPT ![p] = "idle"]
    /\ loc' = [loc EXCEPT ![p] = Blank]
    /\ resp' = [resp EXCEPT ![p] = r]

Goto(p, label, l) ==
    /\ pc' = [pc EXCEPT ![p] = label]
    /\ loc' = [loc EXCEPT ![p] = l]
    /\ UNCHANGED resp

\* ------------------------------------------------------------------------
\* api/auth.py: detect_suspicious_session, on the rows its query returns

ActiveSessionsQuery(t) ==
    {s \in sessions : s.user_id = UserId /\ s.status = "active" /\ s.expires_at > t}

\* set([s.country_code for s in active_sessions if s.country_code])
KnownCountries(active) == {s.country_code : s \in active} \ {"None"}

NewCountryRule_UnknownIsNew(active, country) ==
    /\ active # {}
    /\ KnownCountries(active) # {}
    /\ country \notin KnownCountries(active)

NewCountryRule(active, country) ==
    /\ active # {}
    /\ country # "None"
    /\ KnownCountries(active) # {}
    /\ country \notin KnownCountries(active)

ConcurrencyCapRule(active) == Cardinality(active) >= MAX_CONCURRENT_SESSIONS

\* min(active_sessions, key=lambda s: s.created_at): the query has no ORDER BY,
\* so among rows of equal created_at any one can come first
OldestSessions(active) ==
    {s \in active : \A o \in active : s.created_at <= o.created_at}

\* session.risk_score of the not yet inserted UserSession: the column default
\* (0) is applied by the INSERT, so the attribute reads None until rule A sets it
RiskScoreBeforeCap(ruleA) == IF ruleA THEN 75 ELSE None

\* max(session.risk_score, 50) raises TypeError on None
CapRaisesTypeError(active, ruleA) ==
    ConcurrencyCapRule(active) /\ RiskScoreBeforeCap(ruleA) = None

\* ------------------------------------------------------------------------
\* api/auth.py: login_user

LockedGate_Reversed(u, t) ==
    /\ u.account_locked_until # None
    /\ u.account_locked_until < t

\* if user.is_locked(): the gate of login_user
LockedGate(u, t) == User_is_locked(u, t)

\* SELECT of the users row, then the is_locked() gate
LoginLookup(p, known, pw_ok, remember_me, country) ==
    /\ pc[p] = "idle"
    /\ UNCHANGED <<redis, requests, now, user, sessions, tokens, events, jwts, access, nextId, ticks>>
    /\ IF ~known
         THEN Finish(p, Response("login", 401, "Invalid credentials"))
         ELSE IF LockedGate(user, now)
         THEN Finish(p, Response("login", 423, "Account is locked until {user.account_locked_until}"))
         ELSE Goto(p, "login_verify",
                   [op |-> "login", user |-> user, t0 |-> now, pw_ok |-> pw_ok,
                    remember_me |-> remember_me, country |-> country])

ActiveGate_Open(u, t) == TRUE

\* if not user.is_active(): the gate of login_user after the password check
ActiveGate(u, t) == User_is_active(u, t)

LockThresholdReached_Strict(failed) == failed > MAX_LOGIN_ATTEMPTS

\* if user.failed_login_attempts >= SecurityConfig.MAX_LOGIN_ATTEMPTS
LockThresholdReached(failed) == failed >= MAX_LOGIN_ATTEMPTS

\* user.failed_login_attempts += 1, the lock at the threshold, and the commit
FailedPasswordCommit(p) ==
    LET u == loc[p].user
        failed == u.failed_login_attempts + 1
        lock == LockThresholdReached(failed)
    IN  /\ failed <= MaxFailed
        /\ lock => EventCount(AccountLockedEvent) < MaxEvents
        /\ user' = [user EXCEPT
                        !.failed_login_attempts = failed,
                        !.account_locked_until =
                            IF lock THEN now + ACCOUNT_LOCK_DURATION_MINUTES ELSE @]
        /\ events' = IF lock THEN db_add_event(AccountLockedEvent) ELSE events
        /\ UNCHANGED <<sessions, tokens>>
        /\ Finish(p, Response("login", 401, "Invalid credentials"))

\* create_user_session up to its commit: the expiry, the query of the active
\* sessions and detect_suspicious_session on the rows it returned
SessionExpiry(remember_me, t) ==
    IF remember_me THEN t + REMEMBER_ME_DAYS * MinutesPerDay
    ELSE t + SESSION_TIMEOUT_MINUTES

PlanSession(p) ==
    LET l == loc[p]
        active == ActiveSessionsQuery(now)
        ruleA == NewCountryRule(active, l.country)
    IN  IF CapRaisesTypeError(active, ruleA)
        THEN /\ UNCHANGED <<user, sessions, tokens, events>>
             /\ Finish(p, Response("login", 500,
                           "Authentication service temporarily unavailable"))
        ELSE /\ UNCHANGED <<user, sessions, tokens, events>>
             /\ \E oldest \in IF ConcurrencyCapRule(active)
                               THEN {s.id : s \in OldestSessions(active)}
                               ELSE {NoSession} :
                  Goto(p, "login_session",
                       [l EXCEPT !.op = "login"] @@
                       [expires_at |-> SessionExpiry(l.remember_me, now),
                        is_suspicious |-> ruleA,
                        previous_countries |-> KnownCountries(active),
                        risk_score |-> IF ruleA THEN 75 ELSE 0,
                        evict |-> oldest,
                        ended_at |-> now])

\* the password check and what follows it up to the next database round trip
LoginVerify(p) ==
    /\ pc[p] = "login_verify"
    /\ UNCHANGED <<redis, requests, now, jwts, access, nextId, ticks>>
    /\ IF ~loc[p].pw_ok
         THEN FailedPasswordCommit(p)
         ELSE IF ~ActiveGate(loc[p].user, now)
         THEN /\ UNCHANGED <<user, sessions, tokens, events>>
              /\ Finish(p, Response("login", 403, "Account is {user.status}"))
         ELSE PlanSession(p)

\* the columns of the users row the successful login changed: a column set to
\* the value it was loaded with is not part of the UPDATE
ResetOnSuccess(u, loaded) ==
    [u EXCEPT
        !.failed_login_attempts = IF loaded.failed_login_attempts # 0 THEN 0 ELSE @,
        !.account_locked_until = IF loaded.account_locked_until # None THEN None ELSE @]

RevokeSession(s, t) == [s EXCEPT !.status = "revoked", !.ended_at = t]

NewSession(l, n) ==
    [id |-> Uuid4("user_sessions.id", n),
     user_id |-> UserId,
     session_id |-> TokenUrlsafe("session_id", n),
     status |-> "active",
     country_code |-> l.country,
     created_at |-> l.t0,
     last_activity_at |-> l.t0,
     expires_at |-> l.expires_at,
     ended_at |-> None,
     is_suspicious |-> l.is_suspicious,
     risk_score |-> l.risk_score]

\* db.add(session); db.commit() of create_user_session: flushes the reset of
\* the users row, the eviction and the new row
LoginCreateSession(p) ==
    LET l == loc[p] IN
    /\ pc[p] = "login_session"
    /\ UNCHANGED <<redis, requests, now, tokens, jwts, access, ticks>>
    /\ IF l.evict # NoSession /\ ~\E s \in sessions : s.id = l.evict
         THEN /\ UNCHANGED <<user, sessions, events, nextId>>
              /\ Finish(p, Response("login", 500,
                            "Authentication service temporarily unavailable"))
         ELSE /\ nextId <= MaxIds
              /\ l.is_suspicious =>
                    EventsOfType("suspicious_login_location") < MaxEvents
              /\ user' = ResetOnSuccess(user, l.user)
              /\ sessions' =
                    {IF s.id = l.evict THEN RevokeSession(s, l.ended_at) ELSE s :
                        s \in sessions}
                    \cup {NewSession(l, nextId)}
              /\ events' = IF l.is_suspicious
                             THEN db_add_event(SuspiciousLocationEvent(
                                        l.country, l.previous_countries))
                             ELSE events
              /\ nextId' = nextId + 1
              /\ Goto(p, "login_tokens",
                      [op |-> "login", session |-> NewSession(l, nextId),
                       remember_me |-> l.remember_me])

\* core/security.py: create_refresh_token(user_id, session_id, family_id)
RefreshJwt(session_id, family_id, n, t) ==
    [sub |-> UserId,
     session_id |-> session_id,
     family_id |-> family_id,
     jti |-> TokenUrlsafe("jti", n),
     exp |-> t + REFRESH_TOKEN_EXPIRE_DAYS * MinutesPerDay,
     iat |-> t,
     token_type |-> "refresh"]

\* core/security.py: create_access_token(data, expires_delta); login_user
\* passes timedelta(days=1) for a remember_me login
AccessJwt(session_id, n, t, remember_me) ==
    [sub |-> UserId,
     session_id |-> session_id,
     jti |-> TokenUrlsafe("access_jti", n),
     exp |-> t + (IF remember_me THEN MinutesPerDay ELSE ACCESS_TOKEN_EXPIRE_MINUTES),
     iat |-> t,
     token_type |-> "access"]

\* the refresh_tokens row stored for a token: session_id is the session's
\* primary key (session.id), the token's claim is session.session_id
RefreshTokenRecord(jwt, session_pk) ==
    [token_hash |-> Sha256Hex(jwt),
     user_id |-> jwt.sub,
     session_id |-> session_pk,
     token_family |-> jwt.family_id,
     is_used |-> FALSE,
     is_revoked |-> FALSE,
     expires_at |-> jwt.exp]

\* the tokens of a login, the refresh_tokens row and the commit
LoginIssueTokens(p) ==
    LET sess == loc[p].session
        jwt == RefreshJwt(sess.session_id, TokenUrlsafe("family_id", nextId),
                          nextId, now)
    IN  /\ pc[p] = "login_tokens"
        /\ UNCHANGED <<redis, requests, now, user, sessions, events, ticks>>
        /\ IF ~\E s \in sessions : s.id = sess.id
             THEN /\ UNCHANGED <<tokens, jwts, access, nextId>>
                  /\ Finish(p, Response("login", 500,
                                "Authentication service temporarily unavailable"))
             ELSE /\ tokens' = tokens \cup {RefreshTokenRecord(jwt, sess.id)}
                  /\ jwts' = jwts \cup {jwt}
                  /\ access' = access \cup
                        {AccessJwt(sess.session_id, nextId, now, loc[p].remember_me)}
                  /\ nextId' = nextId + 1
                  /\ Finish(p, Response("login", 200, "TokenResponse"))

\* ------------------------------------------------------------------------
\* api/auth.py: refresh_access_token

verify_token_AnyType(jwt, token_type, t) ==
    /\ ~(jwt.exp < t)
    /\ ~(jwt.iat > t + 1)

\* verify_token after jwt.decode returned the payload: the token_type, exp
\* and iat checks
verify_token(jwt, token_type, t) ==
    /\ jwt.token_type = token_type
    /\ ~(jwt.exp < t)
    /\ ~(jwt.iat > t + 1)     \* the 60 second tolerance, in minutes

\* the key of jwt_service, the iss and aud claims its tokens carry
SecretKey == "secret_key"
JwtIssuer == "makko-intelligence-auth"
JwtAudience == "tumataxi-app"

\* jwt.encode(claims, key): the claims, the iss and aud among them, and the
\* key that made the signature
JwtEncode(claims, iss, aud, key) ==
    [claims |-> claims, iss |-> iss, aud |-> aud, signature |-> key]

\* a token as create_access_token and create_refresh_token return it
SignedToken(claims) == JwtEncode(claims, JwtIssuer, JwtAudience, SecretKey)

\* jwt.decode(token, self.secret_key, audience=..., issuer=...) raises a
\* JWTError: the signature, the exp, aud and iss checks of the library
JwtDecodeRaises(token, key, t) ==
    \/ token.signature # key
    \/ token.claims.exp < t
    \/ token.aud # JwtAudience
    \/ token.iss # JwtIssuer

NoClaims == [token_type |-> "none"]

SecurityExceptionOf(message) ==
    [raised |-> "SecurityException", message |-> message, payload |-> NoClaims]

\* JWTService.verify_token: the payload, or the SecurityException of one of
\* its two except clauses (the SecurityException raised by a check of its
\* own is caught by "except Exception" and raised again)
JwtServiceVerifyToken(token, token_type, t) ==
    IF JwtDecodeRaises(token, SecretKey, t)
    THEN SecurityExceptionOf("Invalid token")
    ELSE IF ~verify_token(token.claims, token_type, t)
    THEN SecurityExceptionOf("Token verification failed")
    ELSE [raised |-> "none", message |-> "", payload |-> token.claims]

RefreshResponse(code, detail, jwt) ==
    [op |-> "refresh", code |-> code, detail |-> detail, jti |-> jwt.jti]

\* db.query(RefreshToken).filter(token_hash == ..., user_id == ...).first()
RefreshTokenQuery(jwt) ==
    {r \in tokens : r.token_hash = Sha256Hex(jwt) /\ r.user_id = jwt.sub}

\* the bulk UPDATE of the reuse branch
RevokeFamily(family) ==
    {IF r.token_family = family THEN [r EXCEPT !.is_revoked = TRUE] ELSE r :
        r \in tokens}

\* verify_token, the lookup of the row and the reuse branch
RefreshLookup(p, jwt) ==
    /\ pc[p] = "idle"
    /\ UNCHANGED <<redis, requests, now, user, sessions, jwts, access, nextId, ticks>>
    /\ IF ~verify_token(jwt, "refresh", now)
         THEN /\ UNCHANGED <<tokens, events>>
              /\ Finish(p, RefreshResponse(500,
                    "Token refresh service temporarily unavailable", jwt))
         ELSE LET found == RefreshTokenQuery(jwt) IN
              IF found = {}
              THEN /\ UNCHANGED <<tokens, events>>
                   /\ Finish(p, RefreshResponse(401,
                         "Invalid or expired refresh token", jwt))
              ELSE \E r \in found :
                   IF ~RefreshToken_is_valid(r, now)
                   THEN /\ EventCount(TokenReuseEvent) < MaxEvents
                        /\ tokens' = RevokeFamily(r.token_family)
                        /\ events' = db_add_event(TokenReuseEvent)
                        /\ Finish(p, RefreshResponse(401,
                              "Invalid or expired refresh token", jwt))
                   ELSE /\ UNCHANGED <<tokens, events>>
                        /\ Goto(p, "refresh_rotate",
                                [op |-> "refresh", jwt |-> jwt, record |-> r])

UserSessionQuery_BySessionId(session_id) ==
    {s \in sessions : s.session_id = session_id}

\* db.query(UserSession).filter(UserSession.id == session_id).first() with the
\* token's session_id claim
UserSessionQuery(session_id) == {s \in sessions : s.id = session_id}

\* what that query does with a value that is no uuid: PostgreSQL refuses the
\* comparison (DataError, answered 500); a backend that compares it as text
\* finds no row (answered 401)
NoSessionResponses(session_id, jwt) ==
    {RefreshResponse(401, "Invalid session or user", jwt)} \cup
    IF session_id.kind # "uuid"
    THEN {RefreshResponse(500, "Token refresh service temporarily unavailable", jwt)}
    ELSE {}

TokensAfterRejection_MarkedUsed(record) ==
    {IF r.token_hash = record.token_hash THEN [r EXCEPT !.is_used = TRUE] ELSE r :
        r \in tokens}

\* the refresh_tokens rows after the check of the user and the session has
\* raised its HTTPException: is_used is assigned after that check, and the
\* request ends without a commit
TokensAfterRejection(record) == tokens

\* the queries of the user and the session, their checks, and the rotation
\* with its commit
RefreshRotate(p) ==
    LET l == loc[p]
        jwt == l.jwt
        found == UserSessionQuery(jwt.session_id)
        new == RefreshJwt(jwt.session_id, jwt.family_id, nextId, now)
    IN  /\ pc[p] = "refresh_rotate"
        /\ UNCHANGED <<redis, requests, now, user, events, ticks>>
        /\ IF found = {}
             THEN /\ tokens' = TokensAfterRejection(l.record)
                  /\ UNCHANGED <<sessions, jwts, access, nextId>>
                  /\ \E r \in NoSessionResponses(jwt.session_id, jwt) : Finish(p, r)
             ELSE \E s \in found :
                  IF ~User_is_active(user, now) \/ ~UserSession_is_active(s, now)
                  THEN /\ tokens' = TokensAfterRejection(l.record)
                       /\ UNCHANGED <<sessions, jwts, access, nextId>>
                       /\ Finish(p, RefreshResponse(401, "Invalid session or user", jwt))
                  ELSE IF l.record.token_hash \notin {r.token_hash : r \in tokens}
                  THEN /\ UNCHANGED <<tokens, sessions, jwts, access, nextId>>
                       /\ Finish(p, RefreshResponse(500,
                             "Token refresh service temporarily unavailable", jwt))
                  ELSE /\ Cardinality(tokens) < MaxTokens
                       /\ tokens' =
                             {IF r.token_hash = l.record.token_hash
                              THEN [r EXCEPT !.is_used = TRUE] ELSE r : r \in tokens}
                             \cup {RefreshTokenRecord(new, s.id)}
                       /\ sessions' =
                             {IF x.id = s.id THEN [x EXCEPT !.last_activity_at = now]
                              ELSE x : x \in sessions}
                       /\ jwts' = jwts \cup {new}
                       /\ access' = access \cup
                             {AccessJwt(s.session_id, nextId, now, FALSE)}
                       /\ nextId' = nextId + 1
                       /\ Finish(p, RefreshResponse(200, "TokenResponse", jwt))

\* ------------------------------------------------------------------------
\* api/auth.py: get_current_user and logout_user; the reads and the commit of
\* a logout are taken as one step

\* db.query(UserSession).filter(session_id == ..., user_id == ...).first()
LogoutSessionQuery(tok) ==
    {s \in sessions : s.session_id = tok.session_id /\ s.user_id = tok.sub}

RevokeSessionTokens_None(found) == tokens

\* the bulk UPDATE of the session's refresh tokens
RevokeSessionTokens(found) ==
    {IF \E s \in found : r.session_id = s.id
     THEN [r EXCEPT !.is_revoked = TRUE] ELSE r : r \in tokens}

Logout(p, tok) ==
    /\ pc[p] = "idle"
    /\ UNCHANGED <<redis, requests, now, user, events, jwts, access, nextId, ticks>>
    /\ IF ~verify_token(tok, "access", now)
         THEN /\ UNCHANGED <<sessions, tokens>>
              /\ Finish(p, Response("logout", 401, "Invalid or expired token"))
         ELSE IF ~User_is_active(user, now)
         THEN /\ UNCHANGED <<sessions, tokens>>
              /\ Finish(p, Response("logout", 500, "Authentication service error"))
         ELSE LET found == LogoutSessionQuery(tok) IN
              /\ sessions' = {IF s \in found THEN RevokeSession(s, now) ELSE s :
                                 s \in sessions}
              /\ tokens' = RevokeSessionTokens(found)
              /\ Finish(p, Response("logout", 200, "Logged out successfully"))

\* ------------------------------------------------------------------------
\* database/models.py: refresh_tokens.session_id is ON DELETE CASCADE, so the
\* store's removal of a user_sessions row removes its refresh_tokens rows
CascadeDeleteSession(s) ==
    /\ s \in sessions
    /\ sessions' = sessions \ {s}
    /\ tokens' = {r \in tokens : r.session_id # s.id}
    /\ UNCHANGED <<redis, requests, now, user, events, jwts, access, nextId, ticks, pc, loc, resp>>

\* ------------------------------------------------------------------------
\* The clock

\* ------------------------------------------------------------------------
\* The Redis store: for every key that exists, its value and the time its
\* TTL ends (None: the key has no TTL). Times are minutes.

EmptyStore == [k \in {} |-> 0]

RedisKey(kind, ip, path) == [kind |-> kind, ip |-> ip, path |-> path]

\* the store at time t: the keys whose TTL has ended are gone
RedisAt(store, t) ==
    [k \in {x \in DOMAIN store :
              store[x].expire_at = None \/ store[x].expire_at > t} |-> store[k]]

RedisExists(store, key) == key \in DOMAIN store

RedisPut(store, key, entry) ==
    [k \in DOMAIN store \cup {key} |-> IF k = key THEN entry ELSE store[k]]

\* SETEX key seconds value
RedisSetex(store, key, ttl, value, t) ==
    RedisPut(store, key, [value |-> value, expire_at |-> t + ttl])

\* INCR key: a key that does not exist is created with value 1 and no TTL
RedisIncr(store, key) ==
    IF RedisExists(store, key)
    THEN RedisPut(store, key, [store[key] EXCEPT !.value = @ + 1])
    ELSE RedisPut(store, key, [value |-> 1, expire_at |-> None])

\* EXPIRE key seconds: no effect on a key that does not exist
RedisExpire(store, key, ttl, t) ==
    IF RedisExists(store, key)
    THEN RedisPut(store, key, [store[key] EXCEPT !.expire_at = t + ttl])
    ELSE store

\* LPUSH key element
RedisLpush(store, key, element) ==
    IF RedisExists(store, key)
    THEN RedisPut(store, key, [store[key] EXCEPT !.value = <<element>> \o @])
    ELSE RedisPut(store, key, [value |-> <<element>>, expire_at |-> None])

Tick(d) ==
    /\ ticks < MaxTicks
    /\ now' = now + d
    /\ ticks' = ticks + 1
    /\ redis' = RedisAt(redis, now + d)
    /\ UNCHANGED <<user, sessions, tokens, events, jwts, access, nextId, pc, loc, resp,
                   requests>>

\* ------------------------------------------------------------------------
\* api/auth.py: register_user. The state after the account was registered
\* (its users row, the session and the refresh token of the registration)
\* and its status was set by the operator

NoResponse == Response("none", 0, "")

\* create_user_session(user, http_request, db) of the registration
RegisteredSession ==
    NewSession([country |-> "US", t0 |-> 0,
                expires_at |-> SessionExpiry(FALSE, 0),
                is_suspicious |-> FALSE, risk_score |-> 0], 0)

\* create_refresh_token(str(user.id), session.session_id) of the registration
RegisteredJwt ==
    RefreshJwt(RegisteredSession.session_id, TokenUrlsafe("family_id", 0), 0, 0)

\* create_access_token(data) of the registration
RegisteredAccessJwt == AccessJwt(RegisteredSession.session_id, 0, 0, FALSE)

Init ==
    /\ now = 0
    /\ ticks = 0
    /\ \E st \in UserStatus :
         user = [id |-> UserId, status |-> st, deleted_at |-> None,
                 failed_login_attempts |-> 0, account_locked_until |-> None]
    /\ sessions = {RegisteredSession}
    /\ tokens = {RefreshTokenRecord(RegisteredJwt, RegisteredSession.id)}
    /\ events = EmptyBag
    /\ jwts = {RegisteredJwt}
    /\ access = {RegisteredAccessJwt}
    /\ nextId = 1
    /\ pc = [p \in Clients |-> "idle"]
    /\ loc = [p \in Clients |-> Blank]
    /\ resp = [p \in Clients |-> NoResponse]
    /\ redis = EmptyStore
    /\ requests = 0

\* ------------------------------------------------------------------------
\* Specifications

\* SpecLogin: one client, one request at a time, against the account lockout
\* state machine; the clock moves between and inside requests
LoginTicks == {1, ACCOUNT_LOCK_DURATION_MINUTES}

NextLogin ==
    \/ \E known \in BOOLEAN, pw_ok \in BOOLEAN :
          LoginLookup("c1", known, pw_ok, FALSE, "US")
    \/ LoginVerify("c1")
    \/ LoginCreateSession("c1")
    \/ LoginIssueTokens("c1")
    \/ \E d \in LoginTicks : Tick(d)

SpecLogin == Init /\ [][NextLogin]_vars

\* SpecLoginConc: the clients send wrong passwords and their requests interleave
NextLoginConc ==
    \/ \E p \in Clients : LoginLookup(p, TRUE, FALSE, FALSE, "US")
    \/ \E p \in Clients : LoginVerify(p)
    \/ Tick(ACCOUNT_LOCK_DURATION_MINUTES)

SpecLoginConc == Init /\ [][NextLoginConc]_vars

\* SpecSession: one client logs in with the right password from changing
\* places while sessions age and expire between its requests; the country is
\* the geo service's answer, US or None from the mock of core/utils.py and any
\* other code from the service it stands for
BetweenRequests == \A p \in Clients : pc[p] = "idle"

SessionTicks == {1, SESSION_TIMEOUT_MINUTES}

NextSession ==
    \/ \E country \in Countries \cup {"None"} :
          LoginLookup("c1", TRUE, TRUE, FALSE, country)
    \/ LoginVerify("c1")
    \/ LoginCreateSession("c1")
    \/ LoginIssueTokens("c1")
    \/ \E d \in SessionTicks : BetweenRequests /\ Tick(d)

SpecSession == Init /\ [][NextSession]_vars

\* SpecSessionConc: the clients log in with the right password and log out,
\* and their requests interleave
NextSessionConc ==
    \/ \E p \in Clients : LoginLookup(p, TRUE, TRUE, FALSE, "US")
    \/ \E p \in Clients : LoginVerify(p)
    \/ \E p \in Clients : LoginCreateSession(p)
    \/ \E p \in Clients : LoginIssueTokens(p)
    \/ \E p \in Clients, tok \in access : Logout(p, tok)

SpecSessionConc == Init /\ [][NextSessionConc]_vars

\* SpecRefresh: one client logs in and presents refresh tokens it was given,
\* one request at a time, while tokens and sessions age and the store drops
\* session rows
RefreshTicks == {1, REFRESH_TOKEN_EXPIRE_DAYS * MinutesPerDay}

NextRefresh ==
    \/ LoginLookup("c1", TRUE, TRUE, TRUE, "US")
    \/ LoginVerify("c1")
    \/ LoginCreateSession("c1")
    \/ LoginIssueTokens("c1")
    \/ \E jwt \in jwts : RefreshLookup("c1", jwt)
    \/ RefreshRotate("c1")
    \/ \E s \in sessions : BetweenRequests /\ CascadeDeleteSession(s)
    \/ \E d \in RefreshTicks : BetweenRequests /\ Tick(d)

SpecRefresh == Init /\ [][NextRefresh]_vars

\* SpecRefreshConc: the clients present the refresh token of the registration
\* and their requests interleave with each other and with the clock
NextRefreshConc ==
    \/ \E p \in Clients, jwt \in jwts : RefreshLookup(p, jwt)
    \/ \E p \in Clients : RefreshRotate(p)
    \/ \E d \in RefreshTicks : Tick(d)

SpecRefreshConc == Init /\ [][NextRefreshConc]_vars

\* ------------------------------------------------------------------------
\* Steps of a login, as the properties below name them

\* client p's login finishes its password check with a failed verification
FailedVerificationStep(p) ==
    /\ pc[p] = "login_verify"
    /\ ~loc[p].pw_ok
    /\ pc'[p] = "idle"

\* client p's login, whose password verified, ends (with whatever response)
VerifiedLoginEnds(p) ==
    /\ \/ pc[p] = "login_verify" /\ loc[p].pw_ok
       \/ pc[p] \in {"login_session", "login_tokens"}
    /\ pc'[p] = "idle"

\* client p's login reaches the is_locked() gate
LoginArrives(p) ==
    /\ pc[p] = "idle"
    /\ \/ pc'[p] = "login_verify"
       \/ resp'[p] # resp[p] /\ resp'[p].op = "login" /\ resp'[p].code = 423

\* ------------------------------------------------------------------------
\* C5: counted from 0, each failed verification adds one to the counter; the
\* one that makes it MAX_LOGIN_ATTEMPTS leaves the account locked until
\* now + ACCOUNT_LOCK_DURATION_MINUTES with one more high-severity
\* account_locked event stored; while the counter is below MAX_LOGIN_ATTEMPTS
\* the account is not locked.
C5_LockAfterMaxAttempts ==
    [][\A p \in Clients : FailedVerificationStep(p) =>
          /\ user'.failed_login_attempts = user.failed_login_attempts + 1
          /\ IF user'.failed_login_attempts = MAX_LOGIN_ATTEMPTS
             THEN /\ User_is_locked(user', now')
                  /\ user'.account_locked_until = now + ACCOUNT_LOCK_DURATION_MINUTES
                  /\ AccountLockedEvent.severity = "high"
                  /\ CopiesIn(AccountLockedEvent, events') =
                        CopiesIn(AccountLockedEvent, events) + 1
             ELSE user'.failed_login_attempts < MAX_LOGIN_ATTEMPTS =>
                  /\ ~User_is_locked(user', now')
                  /\ events' = events]_vars

C5_Witness ==
    /\ user.failed_login_attempts = MAX_LOGIN_ATTEMPTS
    /\ User_is_locked(user, now)
    /\ EventCount(AccountLockedEvent) = 1

\* C6: every login whose password verifies on an account that is not locked
\* ends with failed_login_attempts = 0 and account_locked_until cleared,
\* whatever the counter, the elapsed lock or the status of the account were
\* before.
C6_VerifiedLoginResets ==
    [][\A p \in Clients : VerifiedLoginEnds(p) =>
          /\ user'.failed_login_attempts = 0
          /\ user'.account_locked_until = None]_vars

\* C7: a login that arrives while is_locked() holds is answered 423 (Account
\* locked), whatever its password, and leaves the users row as it was; while
\* the lock holds nothing changes the counter or the lock.
C7_LockedRejectsUnchanged ==
    [][User_is_locked(user, now) =>
          /\ user' = user
          /\ \A p \in Clients : LoginArrives(p) =>
                /\ pc'[p] = "idle"
                /\ resp'[p] = Response("login", 423, "Account is locked until {user.account_locked_until}")]_vars

C7_Witness ==
    /\ User_is_locked(user, now)
    /\ resp["c1"] = Response("login", 423, "Account is locked until {user.account_locked_until}")

\* a lock was set and the clock has reached its end
LockElapsed(u, t) ==
    /\ u.account_locked_until # None
    /\ t >= u.account_locked_until

\* C8: once the clock has reached locked_until (the instant now =
\* locked_until included) the account is no longer locked, and a login with
\* the right password on an account of status active passes the lock gate
\* and the status check and goes on to create its session.
C8_CorrectLoginAfterExpirySucceeds ==
    [][\A p \in Clients :
          /\ LockElapsed(user, now) => ~User_is_locked(user, now)
          /\ (/\ pc[p] = "login_verify"
              /\ loc[p].pw_ok
              /\ user.status = "active"
              /\ LockElapsed(user, now)
              /\ pc'[p] # "login_verify")
             => /\ pc'[p] # "idle"
                /\ resp'[p].code # 403]_vars

\* C9: every failed verification leaves the stored counter one higher than it
\* was, also when logins interleave (no increment is lost), and the account is
\* locked once the counter has reached MAX_LOGIN_ATTEMPTS.
C9_NoLostIncrement ==
    [][\A p \in Clients : FailedVerificationStep(p) =>
          /\ user'.failed_login_attempts = user.failed_login_attempts + 1
          /\ user'.failed_login_attempts >= MAX_LOGIN_ATTEMPTS =>
                User_is_locked(user', now')]_vars

\* ------------------------------------------------------------------------
\* Steps of a refresh, as the properties below name them

\* client p's refresh of jwt ends in this step
RefreshEnds(p, jwt) ==
    /\ \/ pc[p] = "idle" /\ resp'[p] # resp[p]
       \/ pc[p] = "refresh_rotate" /\ loc[p].jwt = jwt
    /\ pc'[p] = "idle"
    /\ resp'[p].op = "refresh"
    /\ resp'[p].jti = jwt.jti

\* client p's refresh of jwt gets as far as the lookup of the stored record
\* and finds none, or one that is used, revoked or expired
LookupFindsNoValidRecord(p, jwt) ==
    /\ pc[p] = "idle"
    /\ RefreshEnds(p, jwt)
    /\ verify_token(jwt, "refresh", now)
    /\ \A r \in RefreshTokenQuery(jwt) : ~RefreshToken_is_valid(r, now)

\* jwt is usable: its record is valid, the account and the record's session
\* are active
Rotatable(jwt) ==
    /\ verify_token(jwt, "refresh", now)
    /\ User_is_active(user, now)
    /\ \E r \in RefreshTokenQuery(jwt) :
          /\ RefreshToken_is_valid(r, now)
          /\ \E x \in sessions : x.id = r.session_id /\ UserSession_is_active(x, now)

Family(family, rows) == {r \in rows : r.token_family = family}

\* the rows of the family that the step stored
Successors(jwt) ==
    {r \in Family(jwt.family_id, tokens') :
        r.token_hash \notin {x.token_hash : x \in tokens}}

\* C1: a refresh that presents a usable token (valid record, active account,
\* active session) ends with 200, the record marked used and exactly one new
\* record of the same family stored; a refresh that presents a token whose
\* record is used is rejected and leaves no valid record in the family.
C1_SingleUseRefresh ==
    [][\A p \in Clients : \A jwt \in jwts :
          /\ (RefreshEnds(p, jwt) /\ Rotatable(jwt)) =>
                /\ resp'[p].code = 200
                /\ \A r \in tokens' : r.token_hash = Sha256Hex(jwt) => r.is_used
                /\ Cardinality(Successors(jwt)) = 1
          /\ (RefreshEnds(p, jwt) /\ \E r \in RefreshTokenQuery(jwt) : r.is_used) =>
                /\ resp'[p].code = 401
                /\ \A r \in Family(jwt.family_id, tokens') :
                      ~RefreshToken_is_valid(r, now')]_vars

C3_ReuseRevokesFamily ==
    [][\A p \in Clients : \A jwt \in jwts :
          LookupFindsNoValidRecord(p, jwt) =>
             /\ resp'[p].code = 401
             /\ \A r \in Family(jwt.family_id, tokens') : r.is_revoked
             /\ TokenReuseEvent.severity = "critical"
             /\ CopiesIn(TokenReuseEvent, events') =
                   CopiesIn(TokenReuseEvent, events) + 1]_vars

PlannedActive(p) ==
    {s \in sessions : s.status = "active" /\ s.expires_at > loc[p].ended_at}

\* client p's login, verified on an active account, finds the cap reached
CreationAtCap(p) ==
    /\ pc[p] = "login_verify"
    /\ loc[p].pw_ok
    /\ User_is_active(loc[p].user, now)
    /\ Cardinality(ActiveSessionsQuery(now)) >= MAX_CONCURRENT_SESSIONS
    /\ pc'[p] # "login_verify"

\* the commit of such a creation revokes exactly one row, an oldest active one
EvictsExactlyOldest(p) ==
    LET revoked == {s \in sessions : s.status = "active" /\
                      \E x \in sessions' : x.id = s.id /\ x.status = "revoked"}
    IN  /\ Cardinality(revoked) = 1
        /\ revoked \subseteq OldestSessions(PlannedActive(p))
        /\ \A s \in sessions \ revoked : s \in sessions'
        /\ \E n \in sessions' \ sessions :
              n.id \notin {s.id : s \in sessions} /\ n.status = "active"

\* C10: a session creation that finds at least MAX_CONCURRENT_SESSIONS active
\* sessions goes through: its commit revokes exactly one existing session, the
\* active one of the earliest created_at, leaves every other row as it was and
\* stores the new session as active.
C10_OldestFirstEviction ==
    [][\A p \in Clients :
          /\ CreationAtCap(p) => pc'[p] = "login_session"
          /\ (pc[p] = "login_session" /\ pc'[p] # "login_session"
                /\ Cardinality(PlannedActive(p)) >= MAX_CONCURRENT_SESSIONS)
             => EvictsExactlyOldest(p)]_vars

\* ------------------------------------------------------------------------
\* middleware/security.py: RBACMiddleware. A string is the sequence of its
\* pieces: ":" and "/" are pieces of their own, "*" is a piece, and every
\* other piece is a run of characters without ":", "/" or "*".

\* f"{resource}:{action}"
Perm(resource, action) == <<resource, ":", action>>

\* "*"
AllPermissions == <<"*">>

\* None (no permission required)
NoPermission == <<>>

\* self.role_permissions
role_permissions ==
    [super_admin |-> {AllPermissions},
     admin |-> {Perm("users", "read"), Perm("users", "write"), Perm("users", "delete"),
                Perm("drivers", "read"), Perm("drivers", "write"),
                Perm("drivers", "approve"),
                Perm("trips", "read"), Perm("trips", "write"), Perm("trips", "cancel"),
                Perm("reports", "read"), Perm("audit", "read")},
     driver |-> {Perm("profile", "read"), Perm("profile", "write"),
                 Perm("trips", "read"), Perm("trips", "accept"),
                 Perm("trips", "complete"), Perm("earnings", "read")},
     passenger |-> {Perm("profile", "read"), Perm("profile", "write"),
                    Perm("trips", "create"), Perm("trips", "read"),
                    Perm("trips", "cancel"),
                    Perm("payments", "read"), Perm("payments", "write")},
     support |-> {Perm("users", "read"), Perm("trips", "read"), Perm("trips", "write"),
                  Perm("support_tickets", "read"), Perm("support_tickets", "write")},
     moderator |-> {Perm("users", "read"), Perm("drivers", "read"),
                    Perm("trips", "read"), Perm("reports", "read"),
                    Perm("content", "moderate")}]

\* the mapping with one more role that holds a resource wildcard (no role
\* of the configured mapping holds one)
role_permissions_with_wildcard ==
    [r \in DOMAIN role_permissions \cup {"users_manager"} |->
        IF r = "users_manager" THEN {Perm("users", "*")} ELSE role_permissions[r]]

RolePermissionMaps == {role_permissions, role_permissions_with_wildcard}

\* str.split(sep): the pieces between the separators
RECURSIVE SplitFrom(_, _, _)
SplitFrom(str, sep, part) ==
    IF str = <<>> THEN <<part>>
    ELSE IF Head(str) = sep THEN <<part>> \o SplitFrom(Tail(str), sep, <<>>)
    ELSE SplitFrom(Tail(str), sep, Append(part, Head(str)))

Split(str, sep) == SplitFrom(str, sep, <<>>)

\* self.role_permissions.get(user_role, [])
RolePerms(self_role_permissions, user_role) ==
    IF user_role \in DOMAIN self_role_permissions
    THEN self_role_permissions[user_role] ELSE {}

HasPermission_ExactOnly(self_role_permissions, user_role, required_permission) ==
    LET role_perms == RolePerms(self_role_permissions, user_role)
    IN  \/ AllPermissions \in role_perms
        \/ required_permission \in role_perms

\* _has_permission
HasPermission(self_role_permissions, user_role, required_permission) ==
    LET role_perms == RolePerms(self_role_permissions, user_role)
        permission_parts == Split(required_permission, ":")
    IN  \/ AllPermissions \in role_perms
        \/ required_permission \in role_perms
        \/ /\ Len(permission_parts) = 2
           /\ (permission_parts[1] \o <<":", "*">>) \in role_perms

\* f"{method}:{path}"
EndpointKey(method, path) == <<method, ":">> \o path

\* self.endpoint_permissions, in the order of the dict
endpoint_permissions ==
    << <<EndpointKey("GET", <<"/", "api", "/", "admin", "/", "users">>),
         Perm("users", "read")>>,
       <<EndpointKey("POST", <<"/", "api", "/", "admin", "/", "users">>),
         Perm("users", "write")>>,
       <<EndpointKey("DELETE", <<"/", "api", "/", "admin", "/", "users", "/", "*">>),
         Perm("users", "delete")>>,
       <<EndpointKey("GET", <<"/", "api", "/", "driver", "/", "trips">>),
         Perm("trips", "read")>>,
       <<EndpointKey("POST", <<"/", "api", "/", "driver", "/", "trips", "/", "*",
                               "/", "accept">>),
         Perm("trips", "accept")>>,
       <<EndpointKey("POST", <<"/", "api", "/", "passenger", "/", "trips">>),
         Perm("trips", "create")>>,
       <<EndpointKey("GET", <<"/", "api", "/", "reports", "/", "*">>),
         Perm("reports", "read")>> >>

StarMatches_AnyPiece(piece) == TRUE

\* the character class [^/] that pattern.replace("*", "[^/]+") puts for "*"
StarMatches(piece) == piece # "/"

\* re.match(f"^{regex_pattern}$", key): "[^/]+" takes one or more pieces
\* that are not "/", every other piece of the pattern matches itself
RECURSIVE RegexMatch(_, _)
RegexMatch(key, pattern) ==
    IF pattern = <<>> THEN key = <<>>
    ELSE IF Head(pattern) = "*"
    THEN \E n \in 1..Len(key) :
            /\ \A i \in 1..n : StarMatches(key[i])
            /\ RegexMatch(SubSeq(key, n + 1, Len(key)), Tail(pattern))
    ELSE /\ key # <<>>
         /\ Head(key) = Head(pattern)
         /\ RegexMatch(Tail(key), Tail(pattern))

\* _matches_pattern
MatchesPattern(key, pattern) == RegexMatch(key, pattern)

\* the loop over self.endpoint_permissions.items(): the first entry, from
\* the i-th on, whose pattern matches
RECURSIVE FirstMatching(_, _)
FirstMatching(key, i) ==
    IF i > Len(endpoint_permissions) THEN NoPermission
    ELSE IF MatchesPattern(key, endpoint_permissions[i][1])
    THEN endpoint_permissions[i][2]
    ELSE FirstMatching(key, i + 1)

\* _get_required_permission
GetRequiredPermission(method, path) ==
    LET key == EndpointKey(method, path)
        exact == {i \in 1..Len(endpoint_permissions) : endpoint_permissions[i][1] = key}
    IN  IF exact # {}
        THEN endpoint_permissions[CHOOSE i \in exact : TRUE][2]
        ELSE FirstMatching(key, 1)

\* the roles and permissions the functions are applied to
Roles == DOMAIN role_permissions_with_wildcard \cup {"auditor"}

Permissions ==
    UNION {role_permissions[r] : r \in DOMAIN role_permissions}
    \ {AllPermissions}

\* the methods and paths of the requests
Methods == {"GET", "POST", "DELETE"}

Paths ==
    {<<"/", "api", "/", "admin", "/", "users">>,
     <<"/", "api", "/", "admin", "/", "users", "/", "42">>,
     <<"/", "api", "/", "admin", "/", "users", "/">>,
     <<"/", "api", "/", "admin", "/", "users", "/", "42", "/", "roles">>,
     <<"/", "api", "/", "admin", "/", "users", "/", "*">>,
     <<"/", "api", "/", "driver", "/", "trips">>,
     <<"/", "api", "/", "driver", "/", "trips", "/", "42", "/", "accept">>,
     <<"/", "api", "/", "driver", "/", "trips", "/", "42", "/", "7", "/", "accept">>,
     <<"/", "api", "/", "passenger", "/", "trips">>,
     <<"/", "api", "/", "reports", "/", "daily">>,
     <<"/", "api", "/", "reports">>,
     <<"/", "api", "/", "payments">>}

\* ------------------------------------------------------------------------
\* middleware/security.py: the request through SecurityMiddleware,
\* RBACMiddleware and ThreatDetectionMiddleware (main.py adds them in the
\* reverse order, the last added is the outermost). A request is
\*   [ip, method, path, content, x_forwarded_host, user_agent,
\*    content_length, authorization]
\* where content is the set of fragments of its path and query that some
\* pattern of the middlewares looks for, user_agent the set of the words of
\* its lower-cased User-Agent and x_forwarded_host the header of that name.

\* the addresses ipaddress.ip_address accepts
ValidIps == {"203.0.113.9"}

\* _get_client_ip falls back to "unknown" when the connection has no peer
Sources == ValidIps \cup {"unknown"}

\* _is_valid_ip
IsValidIp(ip) == ip \in ValidIps

\* self.malicious_patterns
malicious_patterns ==
    {"<script[^>]*>.*?</script>", "union\\s+select", "drop\\s+table",
     "\\.\\./", "eval\\s*\\(", "exec\\s*\\("}

\* self.blocked_user_agents
blocked_user_agents ==
    {"sqlmap", "nikto", "nmap", "masscan", "zap", "burp", "w3af", "skipfish",
     "gobuster"}

\* self.threat_patterns
threat_patterns ==
    [sql_injection |-> {"union\\s+select", "drop\\s+table", "insert\\s+into",
                        "delete\\s+from", "update\\s+set", "exec\\s*\\(",
                        "sp_executesql", "xp_cmdshell"},
     xss |-> {"<script[^>]*>", "javascript:", "onload\\s*=", "onerror\\s*=",
              "onclick\\s*=", "eval\\s*\\("},
     path_traversal |-> {"\\.\\.\\/", "\\.\\.\\\\", "%2e%2e%2f", "%2e%2e%5c"},
     command_injection |-> {";\\s*cat\\s+", ";\\s*ls\\s+", ";\\s*pwd", ";\\s*id",
                            "\\|\\s*cat\\s+", "\\|\\s*ls\\s+", "&&\\s*cat\\s+"}]

\* the patterns that find a fragment
PatternsFinding(fragment) ==
    CASE fragment = "union select" -> {"union\\s+select"}
      [] fragment = "insert into" -> {"insert\\s+into"}
      [] fragment = "delete from" -> {"delete\\s+from"}
      [] fragment = "xp_cmdshell" -> {"xp_cmdshell"}
      [] fragment = "javascript:" -> {"javascript:"}
      [] OTHER -> {}

\* re.search(pattern, request_content, re.IGNORECASE)
re_search(pattern, content) == \E f \in content : pattern \in PatternsFinding(f)

\* int(str) of the strings of digits that occur
IntOf(str) ==
    CASE str = <<"2">> -> 2
      [] str = <<"3">> -> 3
      [] str = <<"5">> -> 5
      [] str = <<"100">> -> 100
      [] str = <<"512">> -> 512
      [] str = <<"10485761">> -> 10485761
      [] OTHER -> None

AuthLogin == <<"/", "auth", "/", "login">>
AuthRegister == <<"/", "auth", "/", "register">>
AuthResetPassword == <<"/", "auth", "/", "reset-password">>

\* endpoint_limits.get(path, endpoint_limits["default"])
LimitString(path) ==
    IF path = AuthLogin THEN <<"5", "/", "minute">>
    ELSE IF path = AuthRegister THEN <<"3", "/", "minute">>
    ELSE IF path = AuthResetPassword THEN <<"2", "/", "hour">>
    ELSE <<"100", "/", "minute">>

\* count, period = limit_str.split('/'); count = int(count)
LimitCount(path) == IntOf(Split(LimitString(path), "/")[1])

LimitPeriod(path) == Split(LimitString(path), "/")[2]

\* the seconds of pipe.expire(key, 60) and pipe.expire(key, 3600)
PeriodMinutes(period) ==
    IF period = <<"minute">> THEN 1
    ELSE IF period = <<"hour">> THEN 60
    ELSE None

\* the seconds of the two setex on blocked_ip, of the expire on
\* threat_monitoring and of the expire on security_violations
RATE_LIMITED_BLOCK_MINUTES == 5
HIGH_THREAT_BLOCK_MINUTES == 60
THREAT_MONITORING_MINUTES == 60
SECURITY_VIOLATIONS_MINUTES == 1440

MAX_REQUEST_SIZE == 10485760

BlockedIpKey(ip) == RedisKey("blocked_ip", ip, <<>>)
RateLimitKey(ip, path) == RedisKey("rate_limit", ip, path)
ThreatMonitoringKey(ip) == RedisKey("threat_monitoring", ip, <<>>)
SecurityViolationsKey(ip) == RedisKey("security_violations", ip, <<>>)

\* request.state without attributes
NoState == [attached |-> FALSE]

\* the answer to a request: forwarded says that call_next reached the
\* application, state is request.state, threat_score the score computed for
\* it (None: not computed), critical that logger.critical was called
MwResponse(code, detail, forwarded, state, threat_score, critical) ==
    [op |-> "request", code |-> code, detail |-> detail, forwarded |-> forwarded,
     state |-> state, threat_score |-> threat_score, critical |-> critical]

\* _log_security_violation
LogViolation(store, ip, violation, t) ==
    RedisExpire(RedisLpush(store, SecurityViolationsKey(ip), violation),
                SecurityViolationsKey(ip), SECURITY_VIOLATIONS_MINUTES, t)

\* an HTTPException raised below SecurityMiddleware.dispatch's try: the
\* violation is logged, the exception goes on to the global handler, which
\* answers with its status code
SecurityReject(p, store, code, detail, threat_score, critical) ==
    /\ redis' = LogViolation(store, loc[p].request.ip, detail, now)
    /\ Finish(p, MwResponse(code, detail, FALSE, NoState, threat_score, critical))

IsBlocked_LookupSkipped(store, ip) == FALSE

\* await self.redis_client.get(f"blocked_ip:{client_ip}")
IsBlocked(store, ip) == RedisExists(store, BlockedIpKey(ip))

\* steps 1 to 5 of SecurityMiddleware.dispatch: the first failing check
\* answers, as <<status code, detail>>; <<0, "">> when none fails
SecurityChecks(req) ==
    IF ~IsValidIp(req.ip) THEN <<400, "Invalid client IP">>
    ELSE IF IsBlocked(redis, req.ip) THEN <<403, "IP address is blocked">>
    ELSE IF req.user_agent \cap blocked_user_agents # {}
    THEN <<403, "User agent is not allowed">>
    ELSE IF req.content_length # <<>> /\ IntOf(req.content_length) = None
    THEN <<400, "Invalid content-length header">>
    ELSE IF req.content_length # <<>> /\ IntOf(req.content_length) > MAX_REQUEST_SIZE
    THEN <<413, "Request too large">>
    ELSE IF \E pattern \in malicious_patterns : re_search(pattern, req.content)
    THEN <<403, "Malicious request detected">>
    ELSE <<0, "">>

\* the request reaches SecurityMiddleware.dispatch
ReceiveRequest(p, req) ==
    /\ pc[p] = "idle"
    /\ requests < MaxRequests
    /\ requests' = requests + 1
    /\ UNCHANGED <<redis, now, user, sessions, tokens, events, jwts, access, nextId,
                   ticks>>
    /\ Goto(p, "mw_security",
            [op |-> "request", request |-> req, blocklist_checked |-> FALSE,
             current_count |-> None, state |-> NoState])

\* steps 1 to 5 of SecurityMiddleware.dispatch
SecurityDispatch(p) ==
    /\ pc[p] = "mw_security"
    /\ UNCHANGED <<requests, now, user, sessions, tokens, events, jwts, access, nextId,
                   ticks>>
    /\ LET failed == SecurityChecks(loc[p].request) IN
       IF failed[1] # 0
       THEN SecurityReject(p, redis, failed[1], failed[2], None, FALSE)
       ELSE /\ UNCHANGED redis
            /\ Goto(p, "mw_rate_read", [loc[p] EXCEPT !.blocklist_checked = TRUE])

\* _apply_rate_limiting: current_count = await self.redis_client.get(key)
RateLimitRead(p) ==
    LET key == RateLimitKey(loc[p].request.ip, loc[p].request.path)
    IN  /\ pc[p] = "mw_rate_read"
        /\ UNCHANGED <<redis, requests, now, user, sessions, tokens, events, jwts,
                       access, nextId, ticks>>
        /\ Goto(p, "mw_rate_write",
                [loc[p] EXCEPT !.current_count =
                    IF RedisExists(redis, key) THEN redis[key].value ELSE 0])

\* what the pipeline of _apply_rate_limiting writes
RateLimitCount(store, key, current_count, period, t) ==
    IF current_count = 0 /\ PeriodMinutes(period) # None
    THEN RedisExpire(RedisIncr(store, key), key, PeriodMinutes(period), t)
    ELSE RedisIncr(store, key)

RateLimitedBlock_None(store, ip, t) == store

\* await self.redis_client.setex(f"blocked_ip:{client_ip}", 300, "rate_limited")
RateLimitedBlock(store, ip, t) ==
    RedisSetex(store, BlockedIpKey(ip), RATE_LIMITED_BLOCK_MINUTES, "rate_limited", t)

\* _apply_rate_limiting from the comparison on: the request is rejected and
\* its address blocked, or counted and passed on (step 7 only logs)
RateLimitWrite(p) ==
    LET l == loc[p]
        req == l.request
        key == RateLimitKey(req.ip, req.path)
    IN  /\ pc[p] = "mw_rate_write"
        /\ UNCHANGED <<requests, now, user, sessions, tokens, events, jwts, access,
                       nextId, ticks>>
        /\ IF l.current_count >= LimitCount(req.path)
             THEN SecurityReject(p, RateLimitedBlock(redis, req.ip, now),
                                 429, "Rate limit exceeded", None, FALSE)
             ELSE /\ redis' = RateLimitCount(redis, key, l.current_count,
                                             LimitPeriod(req.path), now)
                  /\ Goto(p, "mw_rbac", l)

\* the prefixes of _is_public_endpoint
public_endpoints ==
    {AuthLogin, AuthRegister, AuthResetPassword, <<"/", "health">>, <<"/", "docs">>,
     <<"/", "openapi.json">>, <<"/", "metrics">>}

\* path.startswith(endpoint)
StartsWith(str, prefix) ==
    Len(prefix) <= Len(str) /\ SubSeq(str, 1, Len(prefix)) = prefix

\* _is_public_endpoint
IsPublicEndpoint(path) == \E endpoint \in public_endpoints : StartsWith(path, endpoint)

\* the payload of an access token with the claims of create_access_token
RoleJwt(role, token_type) ==
    [sub |-> UserId, role |-> role, session_id |-> RegisteredSession.session_id,
     jti |-> TokenUrlsafe("access_jti", 0),
     exp |-> ACCESS_TOKEN_EXPIRE_MINUTES, iat |-> 0, token_type |-> token_type]

\* the Authorization header: absent, or "Bearer " and a token
NoAuthorization == [scheme |-> "none"]

BearerToken(token) == [scheme |-> "Bearer", token |-> token]

\* the access token of a role, as create_access_token returns it
Bearer(jwt) == BearerToken(SignedToken(jwt))

PermissionDenied_Never(user_role, required_permission) == FALSE

\* required_permission and not self._has_permission(user_role, required_permission)
PermissionDenied(user_role, required_permission) ==
    /\ required_permission # NoPermission
    /\ ~HasPermission(role_permissions, user_role, required_permission)

\* RBACMiddleware.dispatch
RbacDispatch(p) ==
    LET l == loc[p]
        req == l.request
    IN  /\ pc[p] = "mw_rbac"
        /\ UNCHANGED <<requests, now, user, sessions, tokens, events, jwts, access,
                       nextId, ticks>>
        /\ IF IsPublicEndpoint(req.path)
             THEN UNCHANGED redis /\ Goto(p, "mw_threat", l)
             ELSE IF req.authorization.scheme # "Bearer"
             THEN SecurityReject(p, redis, 401, "Authentication required", None, FALSE)
             ELSE IF JwtServiceVerifyToken(req.authorization.token, "access",
                                           now).raised # "none"
             THEN SecurityReject(p, redis, 401, "Invalid or expired token", None, FALSE)
             ELSE LET payload == JwtServiceVerifyToken(req.authorization.token,
                                                       "access", now).payload IN
                  IF payload.role = "None"
                  THEN SecurityReject(p, redis, 403, "User role not found", None, FALSE)
                  ELSE IF PermissionDenied(payload.role,
                                           GetRequiredPermission(req.method, req.path))
                  THEN SecurityReject(p, redis, 403, "Insufficient permissions",
                                      None, FALSE)
                  ELSE /\ UNCHANGED redis
                       /\ Goto(p, "mw_threat",
                               [l EXCEPT !.state =
                                   [attached |-> TRUE,
                                    user_id |-> payload.sub,
                                    user_role |-> payload.role,
                                    session_id |-> payload.session_id]])

Min(a, b) == IF a < b THEN a ELSE b

\* a header of a request: absent, or present with its value
NoHeader == {}

Header(value) == {value}

\* request.headers.get(name, default)
HeadersGet(header, default) ==
    IF header = NoHeader THEN default ELSE CHOOSE value \in header : TRUE

\* the markers that are substrings of a word of the lower-cased user agent
MarkersIn(word) ==
    CASE word = "googlebot" -> {"bot"}
      [] word = "scraper" -> {"scraper"}
      [] OTHER -> {}

\* the (threat_type, pattern) pairs of self.threat_patterns that find
\* something in the path and query
ThreatPatternsFound(req) ==
    {tp \in UNION {{<<threat_type, pattern>> :
                       pattern \in threat_patterns[threat_type]} :
                    threat_type \in DOMAIN threat_patterns} :
        re_search(tp[2], req.content)}

\* threat_score before return min(threat_score, 100)
ThreatScoreSum(req) ==
    25 * Cardinality(ThreatPatternsFound(req))
    + (IF HeadersGet(req.x_forwarded_host, <<>>) # <<>> THEN 15 ELSE 0)
    + (IF \E word \in req.user_agent :
             MarkersIn(word) \cap {"bot", "crawler", "spider", "scraper"} # {}
       THEN 10 ELSE 0)

AnalyzeRequestThreats_Uncapped(req) == ThreatScoreSum(req)

\* _analyze_request_threats
AnalyzeRequestThreats(req) == Min(ThreatScoreSum(req), 100)

HIGH_THREAT_THRESHOLD == 80
MEDIUM_THREAT_THRESHOLD == 50

HandleMediumThreat_NotCounted(store, ip, t) == store

\* _handle_medium_threat: incr and expire of threat_monitoring:{ip}
HandleMediumThreat(store, ip, t) ==
    RedisExpire(RedisIncr(store, ThreatMonitoringKey(ip)), ThreatMonitoringKey(ip),
                THREAT_MONITORING_MINUTES, t)

\* call_next of the innermost middleware: the application answers
Forwarded(p, threat_score) ==
    Finish(p, MwResponse(200, "handler", TRUE, loc[p].state, threat_score, FALSE))

\* ThreatDetectionMiddleware.dispatch; store_ok tells whether its Redis
\* commands succeed or raise
ThreatDispatch(p, store_ok) ==
    LET req == loc[p].request
        threat_score == AnalyzeRequestThreats(req)
    IN  /\ pc[p] = "mw_threat"
        /\ UNCHANGED <<requests, now, user, sessions, tokens, events, jwts, access,
                       nextId, ticks>>
        /\ IF threat_score > HIGH_THREAT_THRESHOLD
             THEN IF store_ok
                  THEN SecurityReject(p, RedisSetex(redis, BlockedIpKey(req.ip),
                                                    HIGH_THREAT_BLOCK_MINUTES,
                                                    "high_threat", now),
                                      403, "Request blocked by threat detection",
                                      threat_score, TRUE)
                  ELSE UNCHANGED redis /\ Forwarded(p, threat_score)
             ELSE IF threat_score > MEDIUM_THREAT_THRESHOLD
             THEN IF store_ok
                  THEN /\ redis' = HandleMediumThreat(redis, req.ip, now)
                       /\ Forwarded(p, threat_score)
                  ELSE UNCHANGED redis /\ Forwarded(p, threat_score)
             ELSE UNCHANGED redis /\ Forwarded(p, threat_score)

\* a request as a browser sends it
Request(ip, method, path, content, x_forwarded_host, authorization) ==
    [ip |-> ip, method |-> method, path |-> path, content |-> content,
     x_forwarded_host |-> x_forwarded_host, user_agent |-> {"mozilla"},
     content_length |-> <<"512">>, authorization |-> authorization]

\* the account is active
InitActive == Init /\ user.status = "active"

\* one call of _has_permission
HasPermissionCall(p, self_role_permissions, user_role, required_permission) ==
    /\ pc[p] = "idle"
    /\ UNCHANGED <<redis, requests, now, user, sessions, tokens, events, jwts, access, nextId, ticks>>
    /\ Finish(p, [op |-> "_has_permission",
                  role_permissions |-> self_role_permissions,
                  user_role |-> user_role,
                  required_permission |-> required_permission,
                  result |-> HasPermission(self_role_permissions, user_role,
                                           required_permission)])

\* one call of _get_required_permission
GetRequiredPermissionCall(p, method, path) ==
    /\ pc[p] = "idle"
    /\ UNCHANGED <<redis, requests, now, user, sessions, tokens, events, jwts, access, nextId, ticks>>
    /\ Finish(p, [op |-> "_get_required_permission",
                  method |-> method, path |-> path,
                  result |-> GetRequiredPermission(method, path)])

NextRbac ==
    \/ \E m \in RolePermissionMaps, r \in Roles, perm \in Permissions :
          HasPermissionCall("c1", m, r, perm)
    \/ \E method \in Methods, path \in Paths :
          GetRequiredPermissionCall("c1", method, path)

SpecRbac == InitActive /\ [][NextRbac]_vars

\* the resource of a permission: what stands before its ":"
ResourceOf(permission) == permission[1]

\* C14: _has_permission grants a permission to a role exactly when the
\* role's set contains "*", or the permission itself, or "<resource>:*" for
\* the permission's resource; a role holding users:* is granted users:read,
\* users:write and users:delete and not trips:read, and a role absent from
\* the mapping is granted nothing.
C14_HasPermission ==
    \A p \in Clients :
       resp[p].op = "_has_permission" =>
          LET r == resp[p]
              held == IF r.user_role \in DOMAIN r.role_permissions
                      THEN r.role_permissions[r.user_role] ELSE {}
          IN  /\ r.result <=>
                    \/ <<"*">> \in held
                    \/ r.required_permission \in held
                    \/ <<ResourceOf(r.required_permission), ":", "*">> \in held
              /\ r.user_role \notin DOMAIN r.role_permissions => ~r.result
              /\ held = {<<"users", ":", "*">>} =>
                    (r.result <=> r.required_permission \in
                        {<<"users", ":", "read">>, <<"users", ":", "write">>,
                         <<"users", ":", "delete">>})

\* the role holding users:* was granted users:delete
C14_Witness ==
    /\ resp["c1"].op = "_has_permission"
    /\ resp["c1"].user_role = "users_manager"
    /\ resp["c1"].required_permission = <<"users", ":", "delete">>
    /\ resp["c1"].result

\* the segments of a key: what stands between its "/"
Segments(key) == Split(key, "/")

\* the pattern matches the key segment by segment, a "*" segment standing
\* for one segment that is not empty
SegmentsMatch(key, pattern) ==
    LET ks == Segments(key)
        ps == Segments(pattern)
    IN  /\ Len(ks) = Len(ps)
        /\ \A i \in 1..Len(ps) :
              \/ ks[i] = ps[i]
              \/ ps[i] = <<"*">> /\ ks[i] # <<>>

\* C15: _get_required_permission returns the permission of the entry whose
\* key is exactly "METHOD:path" when there is one; otherwise the permission
\* of an entry whose pattern matches the key segment by segment, every "*"
\* standing for exactly one non-empty segment and the method being equal;
\* otherwise no permission.
C15_RequiredPermission ==
    \A p \in Clients :
       resp[p].op = "_get_required_permission" =>
          LET r == resp[p]
              key == <<r.method, ":">> \o r.path
              entries == {endpoint_permissions[i] : i \in 1..Len(endpoint_permissions)}
              exact == {e \in entries : e[1] = key}
              matching == {e \in entries : SegmentsMatch(key, e[1])}
          IN  IF exact # {} THEN r.result \in {e[2] : e \in exact}
              ELSE IF matching # {} THEN r.result \in {e[2] : e \in matching}
              ELSE r.result = NoPermission

\* a path two segments below /api/admin/users was resolved for DELETE, and
\* no permission is required for it
C15_Witness ==
    /\ resp["c1"].op = "_get_required_permission"
    /\ resp["c1"].method = "DELETE"
    /\ resp["c1"].path = <<"/", "api", "/", "admin", "/", "users", "/", "42", "/", "roles">>
    /\ resp["c1"].result = NoPermission

\* ------------------------------------------------------------------------
\* Requests through the three middlewares

\* requests to endpoints with and without a required permission, with the
\* tokens of several roles
RbacPaths ==
    {<<"/", "api", "/", "admin", "/", "users">>,
     <<"/", "api", "/", "admin", "/", "users", "/", "42">>,
     <<"/", "api", "/", "payments">>,
     <<"/", "health">>}

RbacAuthorizations ==
    {NoAuthorization, Bearer(RoleJwt("admin", "access")),
     Bearer(RoleJwt("passenger", "access")), Bearer(RoleJwt("auditor", "access")),
     Bearer(RoleJwt("None", "access")), Bearer(RoleJwt("admin", "refresh"))}

RbacRequests ==
    {Request("203.0.113.9", method, path, {}, NoHeader, authorization) :
        method \in {"GET", "DELETE"}, path \in RbacPaths,
        authorization \in RbacAuthorizations}

NextRbacDispatch ==
    \/ \E req \in RbacRequests : ReceiveRequest("c1", req)
    \/ SecurityDispatch("c1")
    \/ RateLimitRead("c1")
    \/ RateLimitWrite("c1")
    \/ RbacDispatch("c1")
    \/ \E store_ok \in BOOLEAN : ThreatDispatch("c1", store_ok)

SpecRbacDispatch == InitActive /\ [][NextRbacDispatch]_vars

\* what a request carries in its path and query: nothing, two fragments
\* (with an X-Forwarded-Host header: score 65), four fragments (score 100),
\* a fragment that SecurityMiddleware looks for
Benign == [content |-> {}, x_forwarded_host |-> NoHeader]

MediumThreat ==
    [content |-> {"insert into", "delete from"},
     x_forwarded_host |-> Header(<<"evil.example">>)]

HighThreat ==
    [content |-> {"insert into", "delete from", "xp_cmdshell", "javascript:"},
     x_forwarded_host |-> NoHeader]

Malicious == [content |-> {"union select"}, x_forwarded_host |-> NoHeader]

MwRequests ==
    {Request("203.0.113.9", "POST", path, k.content, k.x_forwarded_host,
             NoAuthorization) :
        path \in {AuthRegister, AuthResetPassword},
        k \in {Benign, MediumThreat, HighThreat, Malicious}}
    \cup {Request("unknown", "POST", AuthRegister, {}, NoHeader, NoAuthorization)}

\* 60 seconds, 300 seconds, 3600 seconds
MwTicks == {1, RATE_LIMITED_BLOCK_MINUTES, 60}

\* one request at a time; the clock advances at any point of a request
NextMw ==
    \/ \E req \in MwRequests : ReceiveRequest("c1", req)
    \/ SecurityDispatch("c1")
    \/ RateLimitRead("c1")
    \/ RateLimitWrite("c1")
    \/ RbacDispatch("c1")
    \/ \E store_ok \in BOOLEAN : ThreatDispatch("c1", store_ok)
    \/ \E d \in MwTicks : Tick(d)

SpecMw == InitActive /\ [][NextMw]_vars

\* one request at a time to one endpoint, the clock advancing between
\* requests
NextMwSeq ==
    \/ \E k \in {Benign, MediumThreat, HighThreat} :
          ReceiveRequest("c1", Request("203.0.113.9", "POST", AuthRegister,
                                       k.content, k.x_forwarded_host, NoAuthorization))
    \/ SecurityDispatch("c1")
    \/ RateLimitRead("c1")
    \/ RateLimitWrite("c1")
    \/ RbacDispatch("c1")
    \/ \E store_ok \in BOOLEAN : ThreatDispatch("c1", store_ok)
    \/ \E d \in {1, HIGH_THREAT_BLOCK_MINUTES} : BetweenRequests /\ Tick(d)

SpecMwSeq == InitActive /\ [][NextMwSeq]_vars

\* requests of two clients at the same address to one endpoint, their steps
\* interleaved
NextMwConc ==
    \/ \E p \in Clients :
          ReceiveRequest(p, Request("203.0.113.9", "POST", AuthResetPassword,
                                    {}, NoHeader, NoAuthorization))
    \/ \E p \in Clients : SecurityDispatch(p)
    \/ \E p \in Clients : RateLimitRead(p)
    \/ \E p \in Clients : RateLimitWrite(p)
    \/ \E p \in Clients : RbacDispatch(p)
    \/ \E p \in Clients : ThreatDispatch(p, TRUE)

SpecMwConc == InitActive /\ [][NextMwConc]_vars

\* the request of p leaves the stage in this step
Leaves(p, stage) == pc[p] = stage /\ pc'[p] # stage

\* C16: a request to an endpoint that is not public, with a verified access
\* token whose role does not hold the permission the endpoint requires, is
\* answered 403 by RBACMiddleware.dispatch, with nothing attached to
\* request.state, and is not passed on; a request reaches the next
\* middleware only through RBACMiddleware.dispatch.
C16_DeniedNotForwarded ==
    [][\A p \in Clients :
          /\ (/\ Leaves(p, "mw_rbac")
              /\ ~IsPublicEndpoint(loc[p].request.path)
              /\ loc[p].request.authorization.scheme = "Bearer"
              /\ JwtServiceVerifyToken(loc[p].request.authorization.token, "access",
                                       now).raised = "none"
              /\ LET required == GetRequiredPermission(loc[p].request.method,
                                                       loc[p].request.path)
                 IN  /\ required # NoPermission
                     /\ ~HasPermission(role_permissions,
                                       loc[p].request.authorization.token.claims.role,
                                       required))
             => /\ pc'[p] = "idle"
                /\ resp'[p].code = 403
                /\ ~resp'[p].forwarded
                /\ resp'[p].state = NoState
          /\ (pc'[p] = "mw_threat" /\ pc[p] # "mw_threat") => pc[p] = "mw_rbac"
          /\ (resp'[p] # resp[p] /\ resp'[p].op = "request" /\ resp'[p].forwarded)
                => pc[p] = "mw_threat"]_vars

\* a request was answered 403 "Insufficient permissions"
C16_Witness ==
    /\ resp["c1"].op = "request"
    /\ resp["c1"].code = 403
    /\ resp["c1"].detail = "Insufficient permissions"
    /\ ~resp["c1"].forwarded
    /\ resp["c1"].state = NoState

\* C17: a request whose threat score is above 80 is answered 403 and not
\* passed on, its address is on the blocklist afterwards and the critical
\* event is logged, also when the write to the blocklist raises.
C17_HighThreatBlocked ==
    [][\A p \in Clients :
          (Leaves(p, "mw_threat")
           /\ AnalyzeRequestThreats(loc[p].request) > HIGH_THREAT_THRESHOLD)
          => /\ pc'[p] = "idle"
             /\ resp'[p].code = 403
             /\ ~resp'[p].forwarded
             /\ IsBlocked(redis', loc[p].request.ip)
             /\ resp'[p].critical]_vars

\* the counters of the store: the rate_limit and threat_monitoring keys
Counters(store) ==
    [k \in {x \in DOMAIN store : x.kind \in {"rate_limit", "threat_monitoring"}}
       |-> store[k]]

C19_NeverOverLimit ==
    [][\A p \in Clients :
          Leaves(p, "mw_rate_write") =>
             LET key == RateLimitKey(loc[p].request.ip, loc[p].request.path)
                 counted == IF RedisExists(redis, key) THEN redis[key].value ELSE 0
             IN  IF counted < LimitCount(loc[p].request.path)
                 THEN pc'[p] = "mw_rbac"
                 ELSE /\ pc'[p] = "idle"
                      /\ resp'[p].code = 429
                      /\ IsBlocked(redis', loc[p].request.ip)]_vars

\* C20: no rate_limit counter that has reached its endpoint's count is
\* without a TTL (its address would be answered 429 on that endpoint for
\* ever).
C20_NoPermanentBlock ==
    \A k \in DOMAIN redis :
       (k.kind = "rate_limit" /\ redis[k].value >= LimitCount(k.path))
          => redis[k].expire_at # None

\* client p's login commits its session in this step; the row it stores
SessionStored(p, n) ==
    /\ pc[p] = "login_session"
    /\ pc'[p] = "login_tokens"
    /\ n \in sessions'
    /\ n.id \notin {s.id : s \in sessions}

\* C12: a login that finds active sessions with known countries and comes
\* from a known country that is not among them goes through (also at the
\* concurrency cap), its session is stored with is_suspicious = TRUE and
\* risk_score >= 75, and one more medium-severity suspicious_login_location
\* event with the new and the previous countries is stored; a session from
\* an unknown country is stored unflagged.
C12_NewCountryFlagged ==
    [][\A p \in Clients :
          /\ (/\ pc[p] = "login_verify" /\ pc'[p] # "login_verify"
              /\ loc[p].pw_ok /\ User_is_active(loc[p].user, now)
              /\ KnownCountries(ActiveSessionsQuery(now)) # {}
              /\ loc[p].country \notin KnownCountries(ActiveSessionsQuery(now)) \cup {"None"})
             => pc'[p] = "login_session"
          /\ \A n \in sessions' : SessionStored(p, n) =>
                LET known == KnownCountries(PlannedActive(p))
                    event == SuspiciousLocationEvent(n.country_code, known)
                IN  /\ (known # {} /\ n.country_code \notin known \cup {"None"}) =>
                         /\ n.is_suspicious
                         /\ n.risk_score >= 75
                         /\ event.severity = "medium"
                         /\ CopiesIn(event, events') = CopiesIn(event, events) + 1
                    /\ n.country_code = "None" => ~n.is_suspicious]_vars

\* a session from a new country was stored flagged by a login that also
\* evicted a session at the concurrency cap
C12_Witness ==
    /\ \E n \in sessions : n.is_suspicious /\ n.risk_score = 75 /\ n.country_code = "FR"
    /\ \E s \in sessions : s.status = "revoked"
    /\ EventCount(SuspiciousLocationEvent("FR", {"US"})) >= 1

\* logins and logouts of one client, one request at a time, the clock
\* advancing between requests
NextLogout ==
    \/ LoginLookup("c1", TRUE, TRUE, FALSE, "US")
    \/ LoginVerify("c1")
    \/ LoginCreateSession("c1")
    \/ LoginIssueTokens("c1")
    \/ \E tok \in access : Logout("c1", tok)
    \/ BetweenRequests /\ Tick(1)

SpecLogout == Init /\ [][NextLogout]_vars

\* the row of user_sessions has ended
SessionEnded(s) == s.status # "active" /\ s.ended_at # None

\* C13: a session's status leaves "active" only for "expired" or "revoked"
\* and never comes back, and a session that has ended (status revoked or
\* expired, ended_at set) keeps its status, ended_at and last_activity_at in
\* every later step (logout, cap eviction, login).
C13_EndedSessionImmutable ==
    [][\A s \in sessions : \A t \in sessions' :
          t.id = s.id =>
             /\ t.status # s.status =>
                   s.status = "active" /\ t.status \in {"expired", "revoked"}
             /\ SessionEnded(s) =>
                   /\ t.status = s.status
                   /\ t.ended_at = s.ended_at
                   /\ t.last_activity_at = s.last_activity_at]_vars

\* the sessions of the account that are active
ActiveSessions == {s \in sessions : s.user_id = UserId /\ UserSession_is_active(s, now)}

\* C11: in every reachable state, whatever logins and logouts interleaved, the
\* account has at most MAX_CONCURRENT_SESSIONS active sessions.
C11_CapEnforced == Cardinality(ActiveSessions) <= MAX_CONCURRENT_SESSIONS

\* ------------------------------------------------------------------------
\* The order of the middlewares (main.py: add_middleware, the last one added
\* is the outermost): SecurityMiddleware, RBACMiddleware,
\* ThreatDetectionMiddleware

AdminUsers == <<"/", "api", "/", "admin", "/", "users">>

\* two fragments and no header: score 50
LowThreat == [content |-> {"insert into", "delete from"}, x_forwarded_host |-> NoHeader]

\* requests to an endpoint that is not public, without a token and with the
\* access tokens of two roles, with no, two and four attack fragments
PipelineRequests ==
    {Request("203.0.113.9", "GET", AdminUsers, k.content, k.x_forwarded_host,
             authorization) :
        k \in {Benign, LowThreat, MediumThreat, HighThreat},
        authorization \in {NoAuthorization, Bearer(RoleJwt("admin", "access")),
                           Bearer(RoleJwt("passenger", "access"))}}

\* one request at a time, the Redis commands of the threat detection succeed
NextPipeline ==
    \/ \E req \in PipelineRequests : ReceiveRequest("c1", req)
    \/ SecurityDispatch("c1")
    \/ RateLimitRead("c1")
    \/ RateLimitWrite("c1")
    \/ RbacDispatch("c1")
    \/ ThreatDispatch("c1", TRUE)
    \/ \E d \in {1, HIGH_THREAT_BLOCK_MINUTES} : BetweenRequests /\ Tick(d)

SpecPipeline == InitActive /\ [][NextPipeline]_vars

\* the request of p is answered in this step
Answered(p) == pc[p] \in {"mw_security", "mw_rate_read", "mw_rate_write",
                          "mw_rbac", "mw_threat"} /\ pc'[p] = "idle"

\* C21: a request whose threat score is above the high threshold is scored
\* and blocked before its token is looked at: whatever its Authorization
\* header, it is answered 403 with its score computed, and its address is on
\* the blocklist when the answer is given.
C21_ScoredBeforeAuthorization ==
    [][\A p \in Clients :
          (/\ Answered(p)
           /\ AnalyzeRequestThreats(loc[p].request) > HIGH_THREAT_THRESHOLD)
          => /\ resp'[p].code = 403
             /\ resp'[p].threat_score # None
             /\ IsBlocked(redis', loc[p].request.ip)]_vars

\* ------------------------------------------------------------------------
\* core/security.py: JWTService.verify_token on tokens as they arrive

\* one call of jwt_service.verify_token
VerifyTokenCall(p, token, token_type) ==
    /\ pc[p] = "idle"
    /\ UNCHANGED <<redis, requests, now, user, sessions, tokens, events, jwts, access,
                   nextId, ticks>>
    /\ Finish(p, [op |-> "verify_token", token |-> token, token_type |-> token_type,
                  t |-> now, result |-> JwtServiceVerifyToken(token, token_type, now)])

\* tokens of both types, signed with the key of the service and with
\* another one, with the claims of the service and with others, expiring
\* after one minute and after fifteen, issued now, in one minute, in two
TokenInputs ==
    {JwtEncode([RoleJwt("admin", token_type) EXCEPT !.exp = exp, !.iat = iat],
               iss, aud, key) :
        token_type \in {"access", "refresh"}, exp \in {1, ACCESS_TOKEN_EXPIRE_MINUTES},
        iat \in {0, 1, 2}, iss \in {JwtIssuer, "other-issuer"},
        aud \in {JwtAudience, "other-app"}, key \in {SecretKey, "other_key"}}

NextToken ==
    \/ \E token \in TokenInputs, token_type \in {"access", "refresh"} :
          VerifyTokenCall("c1", token, token_type)
    \/ Tick(1)

SpecToken == InitActive /\ [][NextToken]_vars

\* C22: verify_token returns the claims exactly when the token's signature,
\* issuer and audience are valid, its token_type claim is the expected
\* type, its exp is not in the past and its iat is at most 60 seconds ahead
\* of the clock; in every other case it raises a SecurityException, so a
\* refresh token is not accepted as an access token nor an access token as
\* a refresh token.
C22_VerifyToken ==
    \A p \in Clients :
       resp[p].op = "verify_token" =>
          LET r == resp[p]
              c == r.token.claims
              valid == /\ r.token.signature = SecretKey
                       /\ r.token.iss = JwtIssuer
                       /\ r.token.aud = JwtAudience
                       /\ c.token_type = r.token_type
                       /\ c.exp >= r.t
                       /\ c.iat <= r.t + 1
          IN  IF valid
              THEN r.result.raised = "none" /\ r.result.payload = c
              ELSE r.result.raised = "SecurityException"

\* a refresh token of the service, not expired, was presented where an
\* access token is expected, and the call raised
C22_Witness ==
    LET r == resp["c1"] IN
    /\ r.op = "verify_token"
    /\ r.token_type = "access"
    /\ r.token.claims.token_type = "refresh"
    /\ r.token.signature = SecretKey /\ r.token.iss = JwtIssuer
    /\ r.token.aud = JwtAudience
    /\ r.token.claims.exp >= r.t /\ r.token.claims.iat <= r.t
    /\ r.result.raised = "SecurityException"

\* ------------------------------------------------------------------------
\* The three places a token is verified: get_current_user (the dependency
\* of the endpoints that need a user), RBACMiddleware.dispatch and
\* refresh_access_token

\* api/auth.py: get_current_user, as an endpoint that returns the user. An
\* HTTPException raised inside its try is no SecurityException and is
\* caught by "except Exception"
GetCurrentUser(p, authorization) ==
    /\ pc[p] = "idle"
    /\ UNCHANGED <<redis, requests, now, user, sessions, tokens, events, jwts, access,
                   nextId, ticks>>
    /\ IF authorization.scheme # "Bearer"
         THEN Finish(p, Response("get_current_user", 401,
                                 "Authentication credentials required"))
         ELSE LET result == JwtServiceVerifyToken(authorization.token, "access", now) IN
              IF result.raised # "none"
              THEN Finish(p, Response("get_current_user", 401,
                                      "Invalid or expired token"))
              ELSE IF result.payload.sub # user.id \/ ~User_is_active(user, now)
              THEN Finish(p, Response("get_current_user", 500,
                                      "Authentication service error"))
              ELSE Finish(p, Response("get_current_user", 200, "User"))

\* refresh_access_token on a token as it arrives: the SecurityException of
\* verify_token is no HTTPException and is caught by "except Exception"
RefreshRequest(p, token) ==
    IF JwtServiceVerifyToken(token, "refresh", now).raised # "none"
    THEN /\ pc[p] = "idle"
         /\ UNCHANGED <<redis, requests, now, user, sessions, tokens, events, jwts,
                        access, nextId, ticks>>
         /\ Finish(p, RefreshResponse(500,
               "Token refresh service temporarily unavailable", token.claims))
    ELSE RefreshLookup(p, token.claims)

\* the tokens of the registration as issued, and forged, with another
\* issuer, for another audience, expiring after a minute, issued two
\* minutes ahead
EntryTokens ==
    LET issued == {RoleJwt("admin", "access"), RegisteredJwt} IN
    {SignedToken(jwt) : jwt \in issued}
    \cup {JwtEncode(jwt, JwtIssuer, JwtAudience, "other_key") : jwt \in issued}
    \cup {JwtEncode(jwt, "other-issuer", JwtAudience, SecretKey) : jwt \in issued}
    \cup {JwtEncode(jwt, JwtIssuer, "other-app", SecretKey) : jwt \in issued}
    \cup {SignedToken([jwt EXCEPT !.exp = 1]) : jwt \in issued}
    \cup {SignedToken([jwt EXCEPT !.iat = 2]) : jwt \in issued}

NextEntry ==
    \/ \E authorization \in {NoAuthorization} \cup {BearerToken(t) : t \in EntryTokens} :
          GetCurrentUser("c1", authorization)
    \/ \E token \in EntryTokens :
          ReceiveRequest("c1", Request("203.0.113.9", "GET", AdminUsers, {}, NoHeader,
                                       BearerToken(token)))
    \/ SecurityDispatch("c1")
    \/ RateLimitRead("c1")
    \/ RateLimitWrite("c1")
    \/ RbacDispatch("c1")
    \/ ThreatDispatch("c1", TRUE)
    \/ \E token \in EntryTokens : RefreshRequest("c1", token)
    \/ RefreshRotate("c1")
    \/ BetweenRequests /\ Tick(1)

SpecEntry == Init /\ [][NextEntry]_vars

\* verify_token raises on the token
Rejected(token, token_type) ==
    JwtServiceVerifyToken(token, token_type, now).raised = "SecurityException"

InvalidTokenOutcome(r) == r.code = 401 /\ r.detail = "Invalid or expired token"

\* C23: whatever makes verify_token reject a token (signature, expiry,
\* type, issuer, audience, issue time), the caller gets the same answer at
\* each of the three places that verify tokens: 401 "Invalid or expired
\* token" from get_current_user, from RBACMiddleware and from the refresh
\* endpoint, and never a service error.
C23_UniformRejection ==
    [][\A p \in Clients :
          /\ \A token \in EntryTokens :
                (GetCurrentUser(p, BearerToken(token)) /\ Rejected(token, "access"))
                => InvalidTokenOutcome(resp'[p])
          /\ (/\ pc[p] = "mw_rbac" /\ pc'[p] = "idle"
              /\ loc[p].request.authorization.scheme = "Bearer"
              /\ Rejected(loc[p].request.authorization.token, "access"))
             => InvalidTokenOutcome(resp'[p])
          /\ \A token \in EntryTokens :
                (RefreshRequest(p, token) /\ Rejected(token, "refresh"))
                => InvalidTokenOutcome(resp'[p])]_vars

\* ------------------------------------------------------------------------
\* what login_user answers to an attempt that names no account
UnknownIdentityResponse == Response("login", 401, "Invalid credentials")

\* C24: an attempt with a wrong password against the existing account is
\* answered, in every sequence of attempts, as an attempt naming an
\* unknown identity is answered: same status, same message.
C24_NoUserEnumeration ==
    [][\A p \in Clients :
          /\ \A remember_me \in BOOLEAN, country \in Countries :
                (LoginLookup(p, TRUE, FALSE, remember_me, country) /\ pc'[p] = "idle")
                => resp'[p] = UnknownIdentityResponse
          /\ FailedVerificationStep(p) => resp'[p] = UnknownIdentityResponse]_vars

\* ------------------------------------------------------------------------
\* the answer of login_user's is_locked() gate
LockedRejection(r) == r.op = "login" /\ r.code = 423

\* client p's refresh is rejected by the reuse branch: the stored record of
\* the token is used, revoked or expired
ReuseRejection(p) ==
    \E jwt \in jwts : LookupFindsNoValidRecord(p, jwt) /\ RefreshTokenQuery(jwt) # {}

\* client p's request is blocked by ThreatDetectionMiddleware
ThreatBlock(p) == pc[p] = "mw_threat" /\ pc'[p] = "idle" /\ resp'[p].code = 403

\* C25: when a login is rejected because the account is locked there is an
\* account_locked row in security_events, when a refresh is rejected as
\* reuse a token_reuse_detected row is stored with it, and when a request
\* is blocked by the threat detection a security_events row is stored with
\* it: the row is there when the answer is given.
C25_EventBeforeFailure ==
    [][\A p \in Clients :
          /\ LockedRejection(resp'[p]) => CopiesIn(AccountLockedEvent, events') >= 1
          /\ ReuseRejection(p) =>
                CopiesIn(TokenReuseEvent, events') = CopiesIn(TokenReuseEvent, events) + 1
          /\ ThreatBlock(p) => BagCardinality(events') > BagCardinality(events)]_vars

\* ------------------------------------------------------------------------
\* expires_in of the TokenResponse of login_user and refresh_access_token,
\* in seconds
ExpiresIn == ACCESS_TOKEN_EXPIRE_MINUTES * 60

\* C26: every access token issued has exp - iat = ACCESS_TOKEN_EXPIRE_MINUTES,
\* a remember_me login included, and that is the expires_in returned with
\* it.
C26_FixedAccessLifetime ==
    \A a \in access :
       /\ a.exp - a.iat = ACCESS_TOKEN_EXPIRE_MINUTES
       /\ (a.exp - a.iat) * 60 = ExpiresIn

\* ------------------------------------------------------------------------
\* C27: in every step failed_login_attempts stays the same, or increases by
\* exactly 1 with a failed password check on an account that was not
\* locked when the attempt arrived, or becomes 0 with a login whose
\* password verified; nothing else changes it.
C27_CounterSteps ==
    [][LET before == user.failed_login_attempts
           after == user'.failed_login_attempts
       IN  \/ after = before
           \/ /\ after = before + 1
              /\ \E p \in Clients :
                    /\ FailedVerificationStep(p)
                    /\ ~User_is_locked(loc[p].user, loc[p].t0)
           \/ /\ after = 0
              /\ \E p \in Clients : pc[p] = "login_session" /\ loc[p].pw_ok]_vars

\* ------------------------------------------------------------------------
\* middleware/security.py: _analyze_request_threats as a function of the
\* request

\* one call of _analyze_request_threats
AnalyzeRequestThreatsCall(p, req) ==
    /\ pc[p] = "idle"
    /\ UNCHANGED <<redis, requests, now, user, sessions, tokens, events, jwts, access,
                   nextId, ticks>>
    /\ Finish(p, [op |-> "_analyze_request_threats", request |-> req,
                  result |-> AnalyzeRequestThreats(req)])

\* requests with none to five attack fragments in path and query, without
\* an X-Forwarded-Host header, with an empty one and with a host in it, sent
\* by a browser, by a crawler and by a scraper
ScoredRequests ==
    {[Request("203.0.113.9", "GET", AdminUsers, content, x_forwarded_host,
              NoAuthorization) EXCEPT !.user_agent = user_agent] :
        content \in SUBSET {"union select", "insert into", "delete from",
                            "xp_cmdshell", "javascript:"},
        x_forwarded_host \in {NoHeader, Header(<<>>), Header(<<"evil.example">>)},
        user_agent \in {{"mozilla"}, {"googlebot"}, {"mozilla", "scraper"}}}

NextThreatScore == \E req \in ScoredRequests : AnalyzeRequestThreatsCall("c1", req)

SpecThreatScore == InitActive /\ [][NextThreatScore]_vars

\* the patterns of self.threat_patterns matched in the path and query
PatternsMatched(req) ==
    Cardinality({pattern \in UNION {threat_patterns[threat_type] :
                                       threat_type \in DOMAIN threat_patterns} :
                    \E fragment \in req.content : pattern \in PatternsFinding(fragment)})

AutomatedClient(req) ==
    \E word \in req.user_agent, marker \in {"bot", "crawler", "spider", "scraper"} :
       marker \in MarkersIn(word)

\* the score of the claim, the header weight given when header_counts
ScoreFormula(req, header_counts) ==
    Min(100, 25 * PatternsMatched(req)
             + (IF header_counts THEN 15 ELSE 0)
             + (IF AutomatedClient(req) THEN 10 ELSE 0))

\* C28 (as stated): the threat score is min(100, 25 x patterns matched + 15
\* if the x-forwarded-host header is present + 10 if the user agent carries
\* an automated-client marker), and lies in 0..100.
C28_ScoreAsStated ==
    \A p \in Clients :
       resp[p].op = "_analyze_request_threats" =>
          /\ resp[p].result =
                ScoreFormula(resp[p].request, resp[p].request.x_forwarded_host # NoHeader)
          /\ resp[p].result \in 0..100

\* C28 (amended): the threat score is min(100, 25 x patterns matched + 15 if
\* the x-forwarded-host header is present with a value that is not empty +
\* 10 if the user agent carries an automated-client marker), and lies in
\* 0..100.
C28_ThreatScore ==
    \A p \in Clients :
       resp[p].op = "_analyze_request_threats" =>
          /\ resp[p].result =
                ScoreFormula(resp[p].request,
                             /\ resp[p].request.x_forwarded_host # NoHeader
                             /\ resp[p].request.x_forwarded_host # Header(<<>>))
          /\ resp[p].result \in 0..100

\* a crawler's request with five fragments and a host in X-Forwarded-Host
\* was scored 100
C28_Witness ==
    /\ resp["c1"].op = "_analyze_request_threats"
    /\ Cardinality(resp["c1"].request.content) = 5
    /\ resp["c1"].request.x_forwarded_host = Header(<<"evil.example">>)
    /\ resp["c1"].request.user_agent = {"googlebot"}
    /\ resp["c1"].result = 100

\* ------------------------------------------------------------------------
\* the value of the monitoring counter of an address, 0 when there is none
MonitoringCount(store, ip) ==
    IF RedisExists(store, ThreatMonitoringKey(ip))
    THEN store[ThreatMonitoringKey(ip)].value ELSE 0

\* the store without the monitoring counter of an address
OtherKeys(store, ip) ==
    [k \in DOMAIN store \ {ThreatMonitoringKey(ip)} |-> store[k]]

RECURSIVE Utf8Encode(_)
Utf8Encode(str) ==
    IF str = <<>> THEN <<>>
    ELSE (IF Head(str) < 128 THEN <<Head(str)>>
          ELSE <<192 + (Head(str) \div 64), 128 + (Head(str) % 64)>>)
         \o Utf8Encode(Tail(str))

Ok(value) == [raised |-> "none", value |-> value]

Raised(exception) == [raised |-> exception, value |-> <<>>]

\* decrypted.decode(): the str, or UnicodeDecodeError
RECURSIVE Utf8DecodeFrom(_, _)
Utf8DecodeFrom(bytes, str) ==
    IF bytes = <<>> THEN Ok(str)
    ELSE IF bytes[1] < 128 THEN Utf8DecodeFrom(Tail(bytes), Append(str, bytes[1]))
    ELSE IF /\ bytes[1] \in 194..223
            /\ Len(bytes) >= 2
            /\ bytes[2] \in 128..191
    THEN Utf8DecodeFrom(SubSeq(bytes, 3, Len(bytes)),
                        Append(str, ((bytes[1] - 192) * 64) + (bytes[2] - 128)))
    ELSE Raised("UnicodeDecodeError")

Utf8Decode(bytes) == Utf8DecodeFrom(bytes, <<>>)

\* the "=" of base64 text
Pad == 64

\* base64.urlsafe_b64encode(bytes), as the numbers of its characters
RECURSIVE B64Encode(_)
B64Encode(b) ==
    IF Len(b) = 0 THEN <<>>
    ELSE IF Len(b) = 1 THEN <<b[1] \div 4, (b[1] % 4) * 16, Pad, Pad>>
    ELSE IF Len(b) = 2
    THEN <<b[1] \div 4, ((b[1] % 4) * 16) + (b[2] \div 16), (b[2] % 16) * 4, Pad>>
    ELSE <<b[1] \div 4, ((b[1] % 4) * 16) + (b[2] \div 16),
           ((b[2] % 16) * 4) + (b[3] \div 64), b[3] % 64>>
         \o B64Encode(SubSeq(b, 4, Len(b)))

\* the bytes of the characters collected of a group of four
QuadBytes(quad) ==
    IF Len(quad) < 2 THEN <<>>
    ELSE IF Len(quad) = 2 THEN <<(quad[1] * 4) + (quad[2] \div 16)>>
    ELSE IF Len(quad) = 3
    THEN <<(quad[1] * 4) + (quad[2] \div 16), ((quad[2] % 16) * 16) + (quad[3] \div 4)>>
    ELSE <<(quad[1] * 4) + (quad[2] \div 16), ((quad[2] % 16) * 16) + (quad[3] \div 4),
           ((quad[3] % 4) * 64) + quad[4]>>

\* base64.urlsafe_b64decode(text): binascii.a2b_base64 without validation
\* skips every character outside the alphabet, stops at the padding that
\* completes a group, drops the bits left over in the last character, and
\* raises binascii.Error on an incomplete group
RECURSIVE B64DecodeFrom(_, _, _, _)
B64DecodeFrom(text, quad, pads, bytes) ==
    IF text = <<>>
    THEN IF quad = <<>> THEN Ok(bytes) ELSE Raised("binascii.Error")
    ELSE IF Head(text) = Pad
    THEN IF Len(quad) >= 2 /\ Len(quad) + pads + 1 >= 4
         THEN Ok(bytes \o QuadBytes(quad))
         ELSE B64DecodeFrom(Tail(text), quad, pads + 1, bytes)
    ELSE IF Head(text) \notin 0..63
    THEN B64DecodeFrom(Tail(text), quad, pads, bytes)
    ELSE IF Len(quad) = 3
    THEN B64DecodeFrom(Tail(text), <<>>, 0, bytes \o QuadBytes(Append(quad, Head(text))))
    ELSE B64DecodeFrom(Tail(text), Append(quad, Head(text)), 0, bytes)

B64Decode(text) == B64DecodeFrom(text, <<>>, 0, <<>>)

\* the ASCII code of a character of base64 text: A-Z, a-z, 0-9, "-", "_",
\* "=", and "!" for what is outside the alphabet
AsciiOf(c) ==
    IF c < 26 THEN 65 + c
    ELSE IF c < 52 THEN 97 + (c - 26)
    ELSE IF c < 62 THEN 48 + (c - 52)
    ELSE IF c = 62 THEN 45
    ELSE IF c = 63 THEN 95
    ELSE IF c = Pad THEN 61
    ELSE 33

\* text.encode() and bytes.decode() of base64 text; a byte that is no
\* character of the alphabet is a character outside of it
TextBytes(text) == [i \in 1..Len(text) |-> AsciiOf(text[i])]

BytesText(bytes) ==
    [i \in 1..Len(bytes) |->
        IF \E c \in 0..Pad : AsciiOf(c) = bytes[i]
        THEN CHOOSE c \in 0..Pad : AsciiOf(c) = bytes[i]
        ELSE Pad + 1]

\* the keys: self.secret_key of crypto_service, and the key of another
\* deployment; _get_fernet derives the Fernet key from the SHA-256 of it
FernetKeys == {SecretKey, "other_key"}

\* what stands for the cipher and the HMAC of Fernet under a key: a shift of
\* every byte, and a byte that depends on the key and on every byte signed
KeyByte(key) == IF key = SecretKey THEN 41 ELSE 113

RECURSIVE SumOf(_)
SumOf(bytes) == IF bytes = <<>> THEN 0 ELSE Head(bytes) + SumOf(Tail(bytes))

Hmac(key, bytes) == (KeyByte(key) + (7 * Len(bytes)) + SumOf(bytes)) % 256

Cipher(key, bytes) == [i \in 1..Len(bytes) |-> (bytes[i] + KeyByte(key)) % 256]

Decipher(key, bytes) == [i \in 1..Len(bytes) |-> (bytes[i] + 256 - KeyByte(key)) % 256]

\* the version byte of a Fernet token
FernetVersion == 128

\* Fernet(key).encrypt(data): version, ciphertext and HMAC, base64-encoded
FernetEncrypt(key, data) ==
    LET signed == <<FernetVersion>> \o Cipher(key, data)
    IN  TextBytes(B64Encode(Append(signed, Hmac(key, signed))))

\* Fernet(key).decrypt(token): the data, or InvalidToken when the token is
\* no base64, too short, of another version or its HMAC does not verify
FernetDecrypt(key, token) ==
    LET decoded == B64Decode(BytesText(token))
        bytes == decoded.value
        signed == SubSeq(bytes, 1, Len(bytes) - 1)
    IN  IF \/ decoded.raised # "none"
           \/ Len(bytes) < 2
           \/ bytes[1] # FernetVersion
           \/ bytes[Len(bytes)] # Hmac(key, signed)
        THEN Raised("InvalidToken")
        ELSE Ok(Decipher(key, Tail(signed)))

\* encrypt_sensitive_data under the key of the service that runs it
EncryptSensitiveData(key, data) ==
    B64Encode(FernetEncrypt(key, Utf8Encode(data)))

\* decrypt_sensitive_data: every exception becomes the SecurityException
DecryptSensitiveData(key, encrypted_data) ==
    LET decoded == B64Decode(encrypted_data) IN
    IF decoded.raised # "none" THEN Raised("SecurityException")
    ELSE LET decrypted == FernetDecrypt(key, decoded.value) IN
         IF decrypted.raised # "none" THEN Raised("SecurityException")
         ELSE LET str == Utf8Decode(decrypted.value) IN
              IF str.raised # "none" THEN Raised("SecurityException") ELSE str

\* what happens to a ciphertext on its way: nothing, a character outside
\* the alphabet inserted before position i, the character at i replaced by
\* the next of the alphabet, the character at i removed
Alterations == {"none", "insert", "replace", "remove"}

Altered(text, alteration, i) ==
    CASE alteration = "none" -> text
      [] alteration = "insert" ->
            SubSeq(text, 1, i - 1) \o <<Pad + 1>> \o SubSeq(text, i, Len(text))
      [] alteration = "replace" ->
            [text EXCEPT ![i] = IF @ < Pad THEN (@ + 1) % 64 ELSE 0]
      [] alteration = "remove" ->
            SubSeq(text, 1, i - 1) \o SubSeq(text, i + 1, Len(text))

\* the plaintexts: "", "a", "é", "aé", "éa"
Plaintexts == {<<>>, <<97>>, <<233>>, <<97, 233>>, <<233, 97>>}

\* one call of decrypt_sensitive_data by the service, on what became of the
\* ciphertext encrypt_sensitive_data returned for data under key
DecryptCall(p, data, key, alteration, i) ==
    LET original == EncryptSensitiveData(key, data)
        encrypted_data == Altered(original, alteration, i)
    IN  /\ pc[p] = "idle"
        /\ i \in 1..Len(original)
        /\ alteration = "none" => i = 1
        /\ UNCHANGED <<redis, requests, now, user, sessions, tokens, events, jwts,
                       access, nextId, ticks>>
        /\ Finish(p, [op |-> "decrypt_sensitive_data", data |-> data,
                      encrypted_with |-> key, original |-> original,
                      encrypted_data |-> encrypted_data,
                      result |-> DecryptSensitiveData(SecretKey, encrypted_data)])

\* positions of a ciphertext at which an alteration is tried
MaxPosition == 12

NextCrypto ==
    \E data \in Plaintexts, key \in FernetKeys, alteration \in Alterations,
       i \in 1..MaxPosition : DecryptCall("c1", data, key, alteration, i)

SpecCrypto == InitActive /\ [][NextCrypto]_vars

\* C30: decrypt_sensitive_data returns x for the ciphertext that
\* encrypt_sensitive_data made of x, and raises the SecurityException for a
\* ciphertext that was altered or made under another key: it returns a
\* plaintext for the unaltered ciphertext of its own key only.
C30_RoundTripFailClosed ==
    \A p \in Clients :
       resp[p].op = "decrypt_sensitive_data" =>
          IF /\ resp[p].encrypted_data = resp[p].original
             /\ resp[p].encrypted_with = SecretKey
          THEN resp[p].result = Ok(resp[p].data)
          ELSE resp[p].result = Raised("SecurityException")

\* ------------------------------------------------------------------------
\* core/security.py: CryptographicService.generate_hmac_signature and
\* verify_hmac_signature. A str is here a sequence of characters; the 64
\* characters of a hexdigest are one piece of it, which names the key and the
\* message it was computed from (HMAC-SHA256 taken as collision free), so
\* that a digest equals another one only if both are over the same message
\* under the same key. time.time() is read in seconds.

Chr(c) == [chr |-> c]

Text(chars) == [i \in 1..Len(chars) |-> Chr(chars[i])]

DecimalDigits == <<"0", "1", "2", "3", "4", "5", "6", "7", "8", "9">>

IsDigit(c) == \E d \in 1..10 : c = Chr(DecimalDigits[d])

DigitValue(c) == (CHOOSE d \in 1..10 : c = Chr(DecimalDigits[d])) - 1

\* str(n) of an int
RECURSIVE StrOfNat(_)
StrOfNat(n) ==
    IF n < 10 THEN <<Chr(DecimalDigits[n + 1])>>
    ELSE Append(StrOfNat(n \div 10), Chr(DecimalDigits[(n % 10) + 1]))

StrOfInt(n) == IF n < 0 THEN <<Chr("-")>> \o StrOfNat(0 - n) ELSE StrOfNat(n)

\* str.strip() of the whitespace int() ignores
RECURSIVE Strip(_)
Strip(s) ==
    IF s # <<>> /\ Head(s) = Chr(" ") THEN Strip(Tail(s))
    ELSE IF s # <<>> /\ s[Len(s)] = Chr(" ") THEN Strip(SubSeq(s, 1, Len(s) - 1))
    ELSE s

\* the digits of an int literal: single underscores between digits only
RECURSIVE IntOfDigits(_, _, _)
IntOfDigits(s, value, after_digit) ==
    IF s = <<>> THEN (IF after_digit THEN Ok(value) ELSE Raised("ValueError"))
    ELSE IF IsDigit(Head(s))
         THEN IntOfDigits(Tail(s), (value * 10) + DigitValue(Head(s)), TRUE)
    ELSE IF Head(s) = Chr("_") /\ after_digit THEN IntOfDigits(Tail(s), value, FALSE)
    ELSE Raised("ValueError")

\* int(text): surrounding whitespace, one sign, digits; ValueError otherwise
IntOfStr(text) ==
    LET s == Strip(text)
        signed == s # <<>> /\ Head(s) \in {Chr("+"), Chr("-")}
        r == IntOfDigits(IF signed THEN Tail(s) ELSE s, 0, FALSE)
    IN  IF r.raised = "none" /\ signed /\ Head(s) = Chr("-") THEN Ok(0 - r.value) ELSE r

\* hmac.new(key.encode(), message.encode(), hashlib.sha256).hexdigest()
HmacSha256Hex(key, message) ==
    <<[chr |-> "hexdigest", key |-> key, message |-> message]>>

\* f"{data}:{timestamp}"
SignedMessage(data, timestamp) == data \o <<Chr(":")>> \o timestamp

\* generate_hmac_signature(data) at time t (timestamp is None)
GenerateHmacSignature(data, t) ==
    LET timestamp == StrOfInt(t)
    IN  HmacSha256Hex(SecretKey, SignedMessage(data, timestamp))
           \o <<Chr(":")>> \o timestamp

\* verify_hmac_signature without the check of the timestamp's age
VerifyHmacSignature_AnyAge(data, signature, max_age_seconds, t) ==
    LET sig_parts == Split(signature, Chr(":"))
        received_sig == sig_parts[1]
        timestamp == sig_parts[2]
        sig_time == IntOfStr(timestamp)
    IN  IF Len(sig_parts) # 2 THEN FALSE
        ELSE IF sig_time.raised # "none" THEN FALSE
        ELSE received_sig = HmacSha256Hex(SecretKey, SignedMessage(data, timestamp))

\* verify_hmac_signature(data, signature, max_age_seconds) at time t; an
\* exception raised inside its try is answered with False
VerifyHmacSignature(data, signature, max_age_seconds, t) ==
    LET sig_parts == Split(signature, Chr(":"))
        received_sig == sig_parts[1]
        timestamp == sig_parts[2]
        sig_time == IntOfStr(timestamp)
    IN  IF Len(sig_parts) # 2 THEN FALSE
        ELSE IF sig_time.raised # "none" THEN FALSE
        ELSE IF t - sig_time.value > max_age_seconds THEN FALSE
        ELSE received_sig = HmacSha256Hex(SecretKey, SignedMessage(data, timestamp))

\* the data that is signed and presented
SignedData == {Text(<<"a">>), Text(<<"a", ":", "1">>), <<>>}

\* the characters an altered signature is made with by someone who does not
\* hold the secret key: the last one is a digest under another key
AlteringChrs ==
    {Chr(":"), Chr("1"), Chr(" "), Chr("x"),
     HmacSha256Hex("other_key", SignedMessage(Text(<<"a">>), Text(<<"1">>)))[1]}

AlteredSignature(text, alteration, i, c) ==
    CASE alteration = "none" -> text
      [] alteration = "insert" -> SubSeq(text, 1, i - 1) \o <<c>> \o SubSeq(text, i, Len(text))
      [] alteration = "replace" -> [text EXCEPT ![i] = c]
      [] alteration = "remove" -> SubSeq(text, 1, i - 1) \o SubSeq(text, i + 1, Len(text))

MaxAges == {1, 10}

NoSignature == [op |-> "none"]

\* a caller signs data
GenerateHmacSignatureCall(p, data) ==
    /\ pc[p] = "idle"
    /\ UNCHANGED <<redis, requests, now, user, sessions, tokens, events, jwts,
                   access, nextId, ticks>>
    /\ Finish(p, [op |-> "generate_hmac_signature", signed_data |-> data,
                  signed_at |-> now, signed |-> GenerateHmacSignature(data, now)])

\* a caller verifies data against the signature it was given, or against an
\* alteration of it
VerifyHmacSignatureCall(p, data, alteration, i, c, max_age_seconds) ==
    /\ pc[p] = "idle"
    /\ resp[p].op = "generate_hmac_signature"
    /\ i \in 1..(Len(resp[p].signed) + 1)
    /\ alteration \in {"replace", "remove"} => i <= Len(resp[p].signed)
    /\ alteration = "none" => i = 1
    /\ alteration \in {"none", "remove"} => c = Chr(":")
    /\ UNCHANGED <<redis, requests, now, user, sessions, tokens, events, jwts,
                   access, nextId, ticks>>
    /\ LET signature == AlteredSignature(resp[p].signed, alteration, i, c)
       IN  Finish(p, [op |-> "verify_hmac_signature",
                      signed_data |-> resp[p].signed_data,
                      signed_at |-> resp[p].signed_at, signed |-> resp[p].signed,
                      data |-> data, signature |-> signature,
                      max_age_seconds |-> max_age_seconds, at |-> now,
                      result |-> VerifyHmacSignature(data, signature,
                                                     max_age_seconds, now)])

HmacTicks == {1, 9}

NextHmac ==
    \/ \E data \in SignedData : GenerateHmacSignatureCall("c1", data)
    \/ \E data \in SignedData, alteration \in Alterations, i \in 1..MaxPosition,
          c \in AlteringChrs, max_age_seconds \in MaxAges :
          VerifyHmacSignatureCall("c1", data, alteration, i, c, max_age_seconds)
    \/ ticks < 2 /\ \E d \in HmacTicks : Tick(d)

SpecHmac == InitActive /\ [][NextHmac]_vars

\* C31: verify_hmac_signature returns, and never raises; it returns True for
\* the data and the signature generate_hmac_signature made of it while the
\* signature's age is at most max_age_seconds, and False once it is older and
\* for every other data and every altered signature (another timestamp,
\* another MAC, another number of parts).
C31_HmacSignVerify ==
    \A p \in Clients :
       resp[p].op = "verify_hmac_signature" =>
          resp[p].result =
             (/\ resp[p].data = resp[p].signed_data
              /\ resp[p].signature = resp[p].signed
              /\ resp[p].at - resp[p].signed_at <= resp[p].max_age_seconds)

C31_Witness ==
    \E p \in Clients :
       /\ resp[p].op = "verify_hmac_signature"
       /\ resp[p].signature = resp[p].signed
       /\ resp[p].data = resp[p].signed_data
       /\ resp[p].at - resp[p].signed_at = resp[p].max_age_seconds
       /\ resp[p].max_age_seconds > 0
       /\ resp[p].result

\* ------------------------------------------------------------------------
\* api/auth.py: logout_user on the Authorization header as it arrives, in a
\* store that holds a second account with a session and tokens of its own

OtherUserId == Uuid4("users.id", 1)

OtherUser ==
    [id |-> OtherUserId, status |-> "active", deleted_at |-> None,
     failed_login_attempts |-> 0, account_locked_until |-> None]

\* the rows and tokens of the second account's registration
OtherSession ==
    [NewSession([country |-> "US", t0 |-> 0, expires_at |-> SessionExpiry(FALSE, 0),
                 is_suspicious |-> FALSE, risk_score |-> 0], MaxIds + 1)
       EXCEPT !.user_id = OtherUserId]

OtherJwt ==
    [RefreshJwt(OtherSession.session_id, TokenUrlsafe("family_id", MaxIds + 1),
                MaxIds + 1, 0) EXCEPT !.sub = OtherUserId]

OtherAccessJwt ==
    [AccessJwt(OtherSession.session_id, MaxIds + 1, 0, FALSE) EXCEPT !.sub = OtherUserId]

InitTwoUsers ==
    /\ now = 0
    /\ ticks = 0
    /\ user = [id |-> UserId, status |-> "active", deleted_at |-> None,
               failed_login_attempts |-> 0, account_locked_until |-> None]
    /\ sessions = {RegisteredSession, OtherSession}
    /\ tokens = {RefreshTokenRecord(RegisteredJwt, RegisteredSession.id),
                 RefreshTokenRecord(OtherJwt, OtherSession.id)}
    /\ events = EmptyBag
    /\ jwts = {RegisteredJwt}
    /\ access = {RegisteredAccessJwt}
    /\ nextId = 1
    /\ pc = [p \in Clients |-> "idle"]
    /\ loc = [p \in Clients |-> Blank]
    /\ resp = [p \in Clients |-> NoResponse]
    /\ redis = EmptyStore
    /\ requests = 0

\* db.query(User).filter(User.id == user_id).first()
UserQuery(user_id) ==
    IF user_id = user.id THEN {user}
    ELSE IF user_id = OtherUserId THEN {OtherUser} ELSE {}

\* JWTService.decode_token_unsafe: jwt.get_unverified_claims(token), the
\* claims whatever the signature, issuer, audience and expiry are
DecodeTokenUnsafe(token) == token.claims

Authenticated(u) == [code |-> 200, detail |-> "User", current_user |-> u]

NotAuthenticated(code, detail) ==
    [code |-> code, detail |-> detail, current_user |-> [id |-> NoSession]]

\* get_current_user with the claims taken from the token unverified
CurrentUser_Unverified(authorization, t) ==
    IF authorization.scheme \notin {"Bearer", "bearer"}
    THEN NotAuthenticated(401, "Authentication credentials required")
    ELSE LET found == UserQuery(DecodeTokenUnsafe(authorization.token).sub) IN
         IF found = {} \/ \E u \in found : ~User_is_active(u, t)
         THEN NotAuthenticated(500, "Authentication service error")
         ELSE Authenticated(CHOOSE u \in found : TRUE)

\* Depends(get_current_user): HTTPBearer(auto_error=False) gives no
\* credentials unless the scheme is bearer, in any case of the letters
CurrentUser(authorization, t) ==
    IF authorization.scheme \notin {"Bearer", "bearer"}
    THEN NotAuthenticated(401, "Authentication credentials required")
    ELSE LET result == JwtServiceVerifyToken(authorization.token, "access", t)
             found == UserQuery(result.payload.sub)
         IN  IF result.raised # "none"
             THEN NotAuthenticated(401, "Invalid or expired token")
             ELSE IF found = {} \/ \E u \in found : ~User_is_active(u, t)
             THEN NotAuthenticated(500, "Authentication service error")
             ELSE Authenticated(CHOOSE u \in found : TRUE)

\* db.query(UserSession).filter(session_id == ..., user_id == current_user.id)
LogoutUserSessionQuery(session_id, current_user) ==
    {s \in sessions : s.session_id = session_id /\ s.user_id = current_user.id}

\* logout_user. A header that does not start with "Bearer " in exactly this
\* spelling leaves session_id unassigned: the use of it at the audit event
\* raises, and "except Exception" answers 500 after the empty commit.
LogoutUser(p, authorization) ==
    LET auth == CurrentUser(authorization, now) IN
    /\ pc[p] = "idle"
    /\ UNCHANGED <<redis, requests, now, user, events, jwts, access, nextId, ticks>>
    /\ IF auth.code # 200
         THEN /\ UNCHANGED <<sessions, tokens>>
              /\ Finish(p, Response("logout", auth.code, auth.detail))
         ELSE IF authorization.scheme # "Bearer"
         THEN /\ UNCHANGED <<sessions, tokens>>
              /\ Finish(p, Response("logout", 500,
                                    "Logout service temporarily unavailable"))
         ELSE LET payload == DecodeTokenUnsafe(authorization.token)
                  found == LogoutUserSessionQuery(payload.session_id, auth.current_user)
              IN  /\ sessions' = {IF s \in found THEN RevokeSession(s, now) ELSE s :
                                     s \in sessions}
                  /\ tokens' = RevokeSessionTokens(found)
                  /\ Finish(p, Response("logout", 200, "Logged out successfully"))

\* the Authorization headers of logout requests: the access tokens issued to
\* the two accounts, the same in lower-case spelling of the scheme, and
\* tokens made without the secret key that name a session of either account
ForgedClaims ==
    {OtherAccessJwt, RegisteredAccessJwt,
     [RegisteredAccessJwt EXCEPT !.session_id = OtherSession.session_id],
     [OtherAccessJwt EXCEPT !.session_id = RegisteredSession.session_id]}

LogoutHeaders ==
    {Bearer(jwt) : jwt \in access \cup {OtherAccessJwt}}
    \cup {[scheme |-> "bearer", token |-> SignedToken(jwt)] : jwt \in {RegisteredAccessJwt}}
    \cup {BearerToken(JwtEncode(claims, JwtIssuer, JwtAudience, "other_key")) :
             claims \in ForgedClaims}
    \cup {[scheme |-> "Basic", token |-> SignedToken(RegisteredAccessJwt)]}

NextLogoutUser ==
    \/ LoginLookup("c1", TRUE, TRUE, FALSE, "US")
    \/ LoginVerify("c1")
    \/ LoginCreateSession("c1")
    \/ LoginIssueTokens("c1")
    \/ \E authorization \in LogoutHeaders : LogoutUser("c1", authorization)
    \/ BetweenRequests /\ ticks < 2 /\ Tick(ACCESS_TOKEN_EXPIRE_MINUTES + 1)

SpecLogoutUser == InitTwoUsers /\ [][NextLogoutUser]_vars

\* the rows of user_sessions and refresh_tokens that belong to user_id
RowsOf(user_id) ==
    <<{s \in sessions : s.user_id = user_id}, {r \in tokens : r.user_id = user_id}>>

\* C33: a logout changes session and refresh-token rows only of the account
\* that the verified access token names: a logout whose token does not
\* verify changes no row whatever its claims say, and a logout whose token
\* verifies leaves every row of the other account as it was.
C33_LogoutOwnRowsOnly ==
    [][\A p \in Clients : \A authorization \in LogoutHeaders :
          LogoutUser(p, authorization) =>
             LET verified ==
                    /\ authorization.scheme \in {"Bearer", "bearer"}
                    /\ JwtServiceVerifyToken(authorization.token, "access", now).raised
                          = "none"
             IN  /\ ~verified => UNCHANGED <<sessions, tokens>>
                 /\ \A user_id \in {UserId, OtherUserId} :
                       (verified /\ authorization.token.claims.sub # user_id)
                          => RowsOf(user_id)' = RowsOf(user_id)]_vars

\* one account has logged out, a later logout with a token that does not
\* verify was answered 401, and the other account's session and refresh
\* token are as they were
C33_Witness ==
    /\ resp["c1"] = Response("logout", 401, "Invalid or expired token")
    /\ \E s \in sessions : s.user_id = UserId /\ s.status = "revoked"
    /\ OtherSession \in sessions
    /\ RefreshTokenRecord(OtherJwt, OtherSession.id) \in tokens

\* ------------------------------------------------------------------------
\* The order of the checks of login_user

\* the login of p was answered by one of the four checks in this step
LoginRejected(p) ==
    /\ pc[p] \in {"idle", "login_verify"}
    /\ pc'[p] = "idle"
    /\ resp'[p].op = "login"
    /\ resp'[p].code \in {401, 423, 403}

\* p holds the users row it found, found it not locked when it looked it up,
\* verified the password and then found the account active
PassedAllChecks(p) ==
    /\ loc[p].op = "login"
    /\ loc[p].user.id = UserId
    /\ ~User_is_locked(loc[p].user, loc[p].t0)
    /\ loc[p].pw_ok
    /\ User_is_active(loc[p].user, loc[p].ended_at)
    /\ loc[p].t0 <= loc[p].ended_at

\* C34: a step that adds a row to user_sessions is the session commit of a
\* login that found the identity, found the account not locked, verified the
\* password and found the account active, in this order; a step that adds a
\* refresh-token row or issues tokens is the token step of a login that
\* created its session; and a login answered by one of the four checks
\* (401, 423, 403) adds no session, no refresh-token row and no token.
C34_SessionAfterChecks ==
    [][/\ (\E n \in sessions' : \A s \in sessions : s.id # n.id) =>
             \E p \in Clients : pc[p] = "login_session" /\ PassedAllChecks(p)
       /\ (tokens' # tokens \/ jwts' # jwts \/ access' # access) =>
             \E p \in Clients :
                /\ pc[p] = "login_tokens"
                /\ loc[p].session \in sessions
                /\ resp'[p] = Response("login", 200, "TokenResponse")
       /\ \A p \in Clients :
             LoginRejected(p) =>
                UNCHANGED <<sessions, tokens, jwts, access>>]_vars

\* a login of the active account that passed the four checks has stored its
\* session and its refresh token and was answered with the tokens
C34_Witness ==
    /\ resp["c1"] = Response("login", 200, "TokenResponse")
    /\ user.status = "active"
    /\ Cardinality(sessions) = 2
    /\ Cardinality(tokens) = 2

\* ------------------------------------------------------------------------
\* Refresh-token families under issuing, rotation and revocation

\* SpecFamily: a client logs in once more and logs out while both clients
\* present the refresh tokens issued so far; the requests interleave, and
\* between requests the clock can run to the expiry of the tokens
NextFamily ==
    \/ Cardinality(sessions) < 2 /\ LoginLookup("c1", TRUE, TRUE, FALSE, "US")
    \/ LoginVerify("c1")
    \/ LoginCreateSession("c1")
    \/ LoginIssueTokens("c1")
    \/ \E p \in Clients, jwt \in jwts : RefreshLookup(p, jwt)
    \/ \E p \in Clients : RefreshRotate(p)
    \/ \E tok \in access : Logout("c1", tok)
    \/ BetweenRequests /\ Tick(REFRESH_TOKEN_EXPIRE_DAYS * MinutesPerDay)

SpecFamily == InitActive /\ [][NextFamily]_vars

\* the records of a family for which is_valid() holds at time t
ValidOf(family, rows, t) ==
    {r \in Family(family, rows) : RefreshToken_is_valid(r, t)}

NextRevoked ==
    \/ /\ Cardinality(sessions) <= MAX_CONCURRENT_SESSIONS
       /\ \E country \in Countries : LoginLookup("c1", TRUE, TRUE, FALSE, country)
    \/ LoginVerify("c1")
    \/ LoginCreateSession("c1")
    \/ LoginIssueTokens("c1")
    \/ \E jwt \in jwts : RefreshLookup("c1", jwt)
    \/ RefreshRotate("c1")
    \/ \E tok \in access : Logout("c1", tok)
    \/ BetweenRequests /\ ticks = 0 /\ Tick(SESSION_TIMEOUT_MINUTES)

SpecRevoked == InitActive /\ [][NextRevoked]_vars

\* the refresh_tokens rows of a session
TokensOfSession(s, rows) == {r \in rows : r.session_id = s.id}

\* the step revokes session s
Revokes(s) ==
    /\ s \in sessions
    /\ s.status = "active"
    /\ \E x \in sessions' : x.id = s.id /\ x.status = "revoked"

RejectedAsInactive(p, jwt) ==
    /\ pc[p] = "refresh_rotate"
    /\ loc[p].jwt = jwt
    /\ pc'[p] = "idle"
    /\ resp'[p] = RefreshResponse(401, "Invalid session or user", jwt)

\* C37: a refresh that is rejected with "Invalid session or user" leaves the
\* record of the presented token as it was (not marked used, not revoked),
\* stores no successor, revokes no record of the family, writes no
\* token_reuse_detected event and issues no token.
C37_RejectedRefreshWritesNothing ==
    [][\A p \in Clients : \A jwt \in jwts :
          RejectedAsInactive(p, jwt) =>
             /\ RefreshTokenQuery(jwt)' = RefreshTokenQuery(jwt)
             /\ Family(jwt.family_id, tokens') = Family(jwt.family_id, tokens)
             /\ tokens' = tokens
             /\ CopiesIn(TokenReuseEvent, events') = CopiesIn(TokenReuseEvent, events)
             /\ UNCHANGED <<jwts, access, sessions>>]_vars

\* a refresh was rejected at the check of the user and the session, and the
\* record of its token is still valid, the only one of its family, with no
\* reuse event written
C37_Witness ==
    \E p \in Clients :
       /\ resp[p] = RefreshResponse(401, "Invalid session or user", RegisteredJwt)
       /\ \E r \in RefreshTokenQuery(RegisteredJwt) : RefreshToken_is_valid(r, now)
       /\ Cardinality(Family(RegisteredJwt.family_id, tokens)) = 1
       /\ EventCount(TokenReuseEvent) = 0

\* ------------------------------------------------------------------------
\* The failure counter and the lock across the end of a lock window

\* SpecLockConc: one client sends wrong passwords while another sends the
\* right one; their requests interleave, and between requests the clock can
\* run to the end of a lock window
NextLockConc ==
    \/ LoginLookup("c1", TRUE, FALSE, FALSE, "US")
    \/ LoginLookup("c2", TRUE, TRUE, FALSE, "US")
    \/ \E p \in Clients : LoginVerify(p)
    \/ \E p \in Clients : LoginCreateSession(p)
    \/ \E p \in Clients : LoginIssueTokens(p)
    \/ BetweenRequests /\ Tick(ACCOUNT_LOCK_DURATION_MINUTES)

SpecLockConc == InitActive /\ [][NextLockConc]_vars

\* a lock window has elapsed and no login has cleared it since
LockWindowElapsed ==
    /\ user.account_locked_until # None
    /\ ~User_is_locked(user, now)

\* C38: whenever the account is locked its failure counter is at least
\* MAX_LOGIN_ATTEMPTS; and once a lock window has elapsed with the counter
\* still there, a single failed password verification adds one to the
\* counter, sets account_locked_until to now + ACCOUNT_LOCK_DURATION_MINUTES
\* and stores one more account_locked event.
C38_CounterPersistsAcrossExpiry ==
    /\ [](User_is_locked(user, now) =>
             user.failed_login_attempts >= MAX_LOGIN_ATTEMPTS)
    /\ [][\A p \in Clients :
             (FailedVerificationStep(p) /\ LockWindowElapsed) =>
                /\ user'.failed_login_attempts = user.failed_login_attempts + 1
                /\ user'.account_locked_until = now + ACCOUNT_LOCK_DURATION_MINUTES
                /\ User_is_locked(user', now')
                /\ CopiesIn(AccountLockedEvent, events') =
                      CopiesIn(AccountLockedEvent, events) + 1]_vars

\* ------------------------------------------------------------------------
\* The blocklist entry of a rate-limit violation and the other endpoints

SourceIp == "203.0.113.9"

\* the store after the address has sent one request to /auth/reset-password
\* at time 0: its rate_limit counter stands at 1 and ends with the hour
InitOneCounted ==
    /\ now = 0
    /\ ticks = 0
    /\ user = [id |-> UserId, status |-> "active", deleted_at |-> None,
               failed_login_attempts |-> 0, account_locked_until |-> None]
    /\ sessions = {RegisteredSession}
    /\ tokens = {RefreshTokenRecord(RegisteredJwt, RegisteredSession.id)}
    /\ events = EmptyBag
    /\ jwts = {RegisteredJwt}
    /\ access = {RegisteredAccessJwt}
    /\ nextId = 1
    /\ pc = [p \in Clients |-> "idle"]
    /\ loc = [p \in Clients |-> Blank]
    /\ resp = [p \in Clients |-> NoResponse]
    /\ redis = RateLimitCount(EmptyStore, RateLimitKey(SourceIp, AuthResetPassword), 0,
                              LimitPeriod(AuthResetPassword), 0)
    /\ requests = 0

\* SpecBlockAll: one address sends benign requests to three endpoints, one
\* request at a time; between requests the clock advances by a minute or by
\* the time a rate-limit block lasts
BlockAllPaths == {AuthRegister, AuthResetPassword, <<"/", "rides">>}

NextBlockAll ==
    \/ \E path \in BlockAllPaths :
          ReceiveRequest("c1", Request(SourceIp, "POST", path, {}, NoHeader,
                                       NoAuthorization))
    \/ SecurityDispatch("c1")
    \/ RateLimitRead("c1")
    \/ RateLimitWrite("c1")
    \/ RbacDispatch("c1")
    \/ ThreatDispatch("c1", TRUE)
    \/ \E d \in {1, RATE_LIMITED_BLOCK_MINUTES} : BetweenRequests /\ Tick(d)

SpecBlockAll == InitOneCounted /\ [][NextBlockAll]_vars

\* the rate_limit counters of the store
RateLimitCounters(store) ==
    [k \in {x \in DOMAIN store : x.kind = "rate_limit"} |-> store[k]]

RECURSIVE Power(_, _)
Power(b, e) == IF e = 0 THEN 1 ELSE b * Power(b, e - 1)

\* min(base_delay * (backoff_factor ** attempt), max_delay)
BackoffDelay(base_delay, backoff_factor, max_delay, attempt) ==
    Min(base_delay * Power(backoff_factor, attempt), max_delay)

CallOutcomes == {"returns", "raises_listed", "raises_other"}

\* what the call number n of func returned or raised
ResultOf(n) == [kind |-> "result", call |-> n]
ExceptionOf(outcome, n) == [kind |-> outcome, call |-> n]
AttributeError == [kind |-> "AttributeError", call |-> 0]

NoneReturned == [kind |-> "None", call |-> 0]

RetryEnds(p, l, outcome, value) ==
    Finish(p, [op |-> "retry_with_backoff", outcome |-> outcome, value |-> value,
               calls |-> l.calls, sleeps |-> l.sleeps, history |-> l.history,
               has_name |-> l.has_name, max_retries |-> l.max_retries,
               base_delay |-> l.base_delay, max_delay |-> l.max_delay,
               backoff_factor |-> l.backoff_factor])

\* the call of retry_with_backoff up to the for statement: range(max_retries
\* + 1) is empty for a negative max_retries, and the function returns None
RetryWithBackoff(p, has_name, max_retries, base_delay, max_delay, backoff_factor) ==
    LET l == [op |-> "retry_with_backoff", has_name |-> has_name,
              max_retries |-> max_retries, base_delay |-> base_delay,
              max_delay |-> max_delay, backoff_factor |-> backoff_factor,
              attempt |-> 0, calls |-> 0, sleeps |-> <<>>, history |-> <<>>]
    IN  /\ pc[p] = "idle"
        /\ UNCHANGED <<redis, requests, now, user, sessions, tokens, events, jwts,
                       access, nextId, ticks>>
        /\ IF max_retries + 1 <= 0
             THEN RetryEnds(p, l, "returned", NoneReturned)
             ELSE Goto(p, "retry_attempt", l)

\* one pass of the loop body: the call of func and, when it raised an
\* exception of the tuple, the handler (the log record reads func.__name__)
\* and the sleep
RetryAttempt(p, outcome) ==
    LET l == loc[p]
        n == l.calls + 1
        called == [l EXCEPT !.calls = n, !.history = Append(@, outcome)]
        delay == BackoffDelay(l.base_delay, l.backoff_factor, l.max_delay, l.attempt)
    IN  /\ pc[p] = "retry_attempt"
        /\ UNCHANGED <<redis, requests, now, user, sessions, tokens, events, jwts,
                       access, nextId, ticks>>
        /\ IF outcome = "returns"
             THEN RetryEnds(p, called, "returned", ResultOf(n))
             ELSE IF outcome = "raises_other"
             THEN RetryEnds(p, called, "raised", ExceptionOf(outcome, n))
             ELSE IF l.attempt = l.max_retries
             THEN RetryEnds(p, called, "raised", ExceptionOf(outcome, n))
             ELSE IF ~l.has_name
             THEN RetryEnds(p, called, "raised", AttributeError)
             ELSE Goto(p, "retry_attempt",
                       [called EXCEPT !.attempt = @ + 1, !.sleeps = Append(@, delay)])

MaxRetries == 2

RetryDelays == {1, 3}

NextRetry ==
    \/ \E has_name \in BOOLEAN, max_retries \in (0 - 1)..MaxRetries,
          base_delay \in RetryDelays, max_delay \in {2, 60}, backoff_factor \in {2, 3} :
          RetryWithBackoff("c1", has_name, max_retries, base_delay, max_delay,
                           backoff_factor)
    \/ \E outcome \in CallOutcomes : RetryAttempt("c1", outcome)

SpecRetry == InitActive /\ [][NextRetry]_vars

\* the delays the claim states for a run of so many calls
StatedSleeps(r) ==
    [i \in 1..(r.calls - 1) |->
        Min(r.base_delay * Power(r.backoff_factor, i - 1), r.max_delay)]

\* C40: retry_with_backoff calls the function at most max_retries + 1 times;
\* when it returns, it returns the result of the last call it made, every
\* call before that one having raised an exception of the tuple; when it
\* raises, it raises what the last call raised, which is an exception
\* outside the tuple or the exception of call number max_retries + 1; and
\* between call i and call i + 1 it has slept
\* min(base_delay * backoff_factor^(i - 1), max_delay).
C40_BoundedRetry ==
    /\ \A p \in Clients :
          pc[p] = "retry_attempt" => loc[p].calls <= loc[p].max_retries
    /\ \A p \in Clients :
          LET r == resp[p] IN
          (r.op = "retry_with_backoff" /\ r.max_retries >= 0) =>
             /\ r.calls >= 1
             /\ r.calls <= r.max_retries + 1
             /\ \A i \in 1..(r.calls - 1) : r.history[i] = "raises_listed"
             /\ r.sleeps = StatedSleeps(r)
             /\ r.outcome = "returned" =>
                   r.history[r.calls] = "returns" /\ r.value = ResultOf(r.calls)
             /\ r.outcome = "raised" =>
                   /\ r.value = ExceptionOf(r.history[r.calls], r.calls)
                   /\ \/ r.history[r.calls] = "raises_other"
                      \/ /\ r.history[r.calls] = "raises_listed"
                         /\ r.calls = r.max_retries + 1

====
